---- MODULE Spec2Model ----
(***************************************************************************)
(* Model of the marker/section editing core of the sample-slice tool:      *)
(* the snapshot undo/redo engine (hooks/useUndoRedo), the marker store     *)
(* built on it (hooks/useMarkers), the section deriver (utils/sections)    *)
(* and the key-to-section resolution of the keyboard handler               *)
(* (hooks/useKeyboardControls, constants/keyboardMapping).                 *)
(***************************************************************************)
EXTENDS Integers, Sequences, FiniteSets, TLC

VARIABLES
    history,            \* useUndoRedo: [present, past, future]
    selectedMarkerId,   \* useMarkers: id of the selected marker, 0 for null
    nextId,             \* the next id generateMarkerId will hand out
    ops,                \* number of store/engine operations performed so far
    lastOp,             \* observer: the operation performed last
    drag,               \* observer: progress of commit -> undo -> redo
    afterReset,         \* observer: only undo/redo happened since reset()
    markersIn,          \* argument handed to getSections
    sections,           \* the section list the keyboard handler reads
    played,             \* last onPlaySegment call of the keyboard handler
    keyEvent,           \* last key event delivered to handleKeyDown
    keyMods,            \* modifiers and target of that key event
    audioDuration,      \* App: duration of the decoded file, 0 before any
    audioBuffer,        \* App: the decoded buffer (its file's number), 0 for null
    waveformData,       \* App: whether waveform peaks are set (editor shown)
    isLoading,          \* App: handleFileLoaded is between start and finally
    pending,            \* the asynchronous handler that is awaiting, if any
    exportingSectionId, \* App: section whose export spinner shows, <<>> for null
    isExporting,        \* useExportProgress: bulk export overlay shown
    exportProgress,     \* useExportProgress: progress, currentItem, totalItems
    playbackState,      \* usePlayback: "idle", "playing" or "paused"
    playbackRefs,       \* usePlayback refs: audioBufferRef, pausedAtRef, segment
    audio,              \* usePlayback: remaining state and refs, nodes, frames, clock
    feedback,           \* App: pressedKeyboardIndex and its pending timeouts
    zoomStep,           \* useZoom option: multiplier of one zoom step
    zoomLevel,          \* useZoom: current zoom level
    panOffset,          \* useZoom: start of the visible range in seconds
    lastZoom,           \* observer: the zoom operation performed last
    gesture,            \* the drag gesture in flight: marker and pre-drag time
    pointer,            \* WaveformCanvas refs of the pointer handlers
    committed           \* observer: per marker id, the times it was committed at

vars == <<history, selectedMarkerId, nextId, ops, lastOp, drag, afterReset,
          markersIn, sections, played, keyEvent, keyMods,
          audioDuration, audioBuffer, waveformData, isLoading, pending,
          exportingSectionId, isExporting, exportProgress,
          playbackState, playbackRefs, audio, feedback, zoomStep, zoomLevel, panOffset, lastZoom,
          gesture, pointer, committed>>

storeVars == <<history, selectedMarkerId, nextId, ops, lastOp, drag, afterReset>>
pureVars  == <<markersIn, sections, played, keyEvent>>
fileVars  == <<audioDuration, audioBuffer, waveformData, isLoading, pending>>
exportVars == <<exportingSectionId, isExporting, exportProgress>>
zoomVars  == <<zoomStep, zoomLevel, panOffset, lastZoom>>
playVars  == <<playbackState, playbackRefs, audio, feedback>>
gestureVars == <<gesture, pointer, committed>>
appVars   == <<keyMods, fileVars, exportVars, playVars, zoomVars, gestureVars>>

----------------------------------------------------------------------------
(* Bounds of the model *)

\* the maxHistory argument the store's engine is instantiated with
maxHistory == 2
\* number of markers ever created (ids handed out)
MaxMarkers == 2
\* number of operations in one explored run of the store
MaxOps == 5
\* number of edits in one explored run of the bare engine
MaxEdits == 52
\* length of the marker lists handed to getSections
MaxLen == 3
\* length of the section lists handed to the keyboard handler
MaxSections == 3

\* marker times the pointer handlers can deliver
Times == {0, 1}
\* a name typed into the section header
CustomNames == {<<"Custom", 1>>}

\* program constant: the engine's default capacity
DEFAULT_MAX_HISTORY == 50

NoId == 0

----------------------------------------------------------------------------
(* Markers *)

\* name: `Section ${sectionNumber}`
SectionName(n) == <<"Section", n>>

Marker(id, time, name, enabled) ==
    [id |-> id, time |-> time, name |-> name, enabled |-> enabled]

MarkerIds(markers) == {markers[i].id : i \in DOMAIN markers}

HasId(markers, id) == id \in MarkerIds(markers)

\* position of the marker with this id (ids are unique)
IndexOfId(markers, id) == CHOOSE i \in DOMAIN markers : markers[i].id = id

TimeOf(markers, id) == markers[IndexOfId(markers, id)].time

\* insert m behind every element whose time is <= m.time: one step of a
\* stable sort with comparator (a, b) => a.time - b.time
RECURSIVE InsertByTime(_, _)
InsertByTime(sorted, m) ==
    IF sorted = <<>> THEN <<m>>
    ELSE IF sorted[Len(sorted)].time <= m.time THEN Append(sorted, m)
    ELSE Append(InsertByTime(SubSeq(sorted, 1, Len(sorted) - 1), m),
                sorted[Len(sorted)])

RECURSIVE StableSortByTime(_)
StableSortByTime(markers) ==
    IF markers = <<>> THEN <<>>
    ELSE InsertByTime(StableSortByTime(SubSeq(markers, 1, Len(markers) - 1)),
                      markers[Len(markers)])

\* a plausible slip: the copy is returned without being sorted
sortMarkersByTime_unsorted(markers) == markers

\* [...markers].sort((a, b) => a.time - b.time)
sortMarkersByTime(markers) == StableSortByTime(markers)

\* prev.map(marker => marker.id === id ? { ...marker, time } : marker)
MapTime(markers, id, time) ==
    [i \in DOMAIN markers |->
        IF markers[i].id = id THEN [markers[i] EXCEPT !.time = time]
        ELSE markers[i]]

MapName(markers, id, name) ==
    [i \in DOMAIN markers |->
        IF markers[i].id = id THEN [markers[i] EXCEPT !.name = name]
        ELSE markers[i]]

MapEnabled(markers, id, enabled) ==
    [i \in DOMAIN markers |->
        IF markers[i].id = id THEN [markers[i] EXCEPT !.enabled = enabled]
        ELSE markers[i]]

\* prev.filter(marker => marker.id !== id)
FilterOutId(markers, id) == SelectSeq(markers, LAMBDA m : m.id # id)

----------------------------------------------------------------------------
(* useUndoRedo: the engine, as functions of the previous history record *)

InitialHistory(initialState) ==
    [present |-> initialState, past |-> <<>>, future |-> <<>>]

Min(a, b) == IF a <= b THEN a ELSE b

\* Array.prototype.slice(-n): the last n elements; slice(-0) is slice(0)
SliceLast(s, n) ==
    IF n = 0 \/ Len(s) <= n THEN s
    ELSE SubSeq(s, Len(s) - n + 1, Len(s))

\* a plausible slip: the history is never truncated
setState_unbounded(prev, resolvedState, sameRef, cap) ==
    IF sameRef THEN prev
    ELSE [present |-> resolvedState,
          past    |-> Append(prev.past, prev.present),
          future  |-> <<>>]

\* a plausible slip: at capacity the newest entry is dropped, not the oldest
setState_dropNewest(prev, resolvedState, sameRef, cap) ==
    IF sameRef THEN prev
    ELSE [present |-> resolvedState,
          past    |-> SubSeq(Append(prev.past, prev.present), 1,
                             Min(cap, Len(prev.past) + 1)),
          future  |-> <<>>]

\* a plausible slip: the redo branch survives a new action
setState_keepFuture(prev, resolvedState, sameRef, cap) ==
    IF sameRef THEN prev
    ELSE [present |-> resolvedState,
          past    |-> SliceLast(Append(prev.past, prev.present), cap),
          future  |-> prev.future]

\* a plausible slip: the unchanged-value test is missing
setState_alwaysPush(prev, resolvedState, sameRef, cap) ==
    [present |-> resolvedState,
     past    |-> SliceLast(Append(prev.past, prev.present), cap),
     future  |-> <<>>]

\* setState. sameRef is the outcome of `resolvedState === prev.present`,
\* which on arrays compares identity, not contents.
setState(prev, resolvedState, sameRef, cap) ==
    IF sameRef THEN prev
    ELSE [present |-> resolvedState,
          past    |-> SliceLast(Append(prev.past, prev.present), cap),
          future  |-> <<>>]

\* setStateWithoutHistory: replaces present, leaves past and future alone
setStateWithoutHistory(prev, resolvedState) ==
    [prev EXCEPT !.present = resolvedState]

\* setStateWithExplicitHistory: pushes fromState, present becomes toState
setStateWithExplicitHistory(prev, fromState, toState, cap) ==
    [present |-> toState,
     past    |-> SliceLast(Append(prev.past, fromState), cap),
     future  |-> <<>>]

\* a plausible slip: undo steps back to the oldest entry instead of the newest
undo_oldest(prev) ==
    IF Len(prev.past) = 0 THEN prev
    ELSE [present |-> prev.past[1],
          past    |-> SubSeq(prev.past, 2, Len(prev.past)),
          future  |-> <<prev.present>> \o prev.future]

\* a plausible slip: with nothing to undo, present is still pushed to future
undo_unguarded(prev) ==
    IF Len(prev.past) = 0
    THEN [prev EXCEPT !.future = <<prev.present>> \o prev.future]
    ELSE [present |-> prev.past[Len(prev.past)],
          past    |-> SubSeq(prev.past, 1, Len(prev.past) - 1),
          future  |-> <<prev.present>> \o prev.future]

undo(prev) ==
    IF Len(prev.past) = 0 THEN prev
    ELSE [present |-> prev.past[Len(prev.past)],
          past    |-> SubSeq(prev.past, 1, Len(prev.past) - 1),
          future  |-> <<prev.present>> \o prev.future]

\* a plausible slip: redo takes the entry undone first instead of last
redo_last(prev) ==
    IF Len(prev.future) = 0 THEN prev
    ELSE [present |-> prev.future[Len(prev.future)],
          past    |-> Append(prev.past, prev.present),
          future  |-> SubSeq(prev.future, 1, Len(prev.future) - 1)]

redo(prev) ==
    IF Len(prev.future) = 0 THEN prev
    ELSE [present |-> prev.future[1],
          past    |-> Append(prev.past, prev.present),
          future  |-> SubSeq(prev.future, 2, Len(prev.future))]

clearHistory(prev) ==
    [present |-> prev.present, past |-> <<>>, future |-> <<>>]

canUndoOf(h) == Len(h.past) > 0
canRedoOf(h) == Len(h.future) > 0

----------------------------------------------------------------------------
(* useMarkers: the store's operations as functions of the engine state.    *)
(* Every updater builds a fresh array (map, filter, spread, literal), so   *)
(* the engine's identity test never finds the present array again.         *)

FreshArray == FALSE

\* addMarker: the updater handed to setMarkers
addMarker(prev, id, time) ==
    LET sectionNumber == Len(prev.present) + 1
        newMarker == Marker(id, time, SectionName(sectionNumber), TRUE)
    IN setState(prev, sortMarkersByTime(Append(prev.present, newMarker)),
                FreshArray, maxHistory)

updateMarker(prev, id, time) ==
    setState(prev, sortMarkersByTime(MapTime(prev.present, id, time)),
             FreshArray, maxHistory)

\* a plausible slip: the intermediate update goes through the historied path
updateMarkerSilent_historied(prev, id, time) ==
    setState(prev, sortMarkersByTime(MapTime(prev.present, id, time)),
             FreshArray, maxHistory)

updateMarkerSilent(prev, id, time) ==
    setStateWithoutHistory(prev,
        sortMarkersByTime(MapTime(prev.present, id, time)))

\* a plausible slip: the two snapshots are handed over in the wrong order
updateMarkerAtomic_swapped(prev, id, fromTime, toTime) ==
    LET markers == prev.present
        fromState == sortMarkersByTime(MapTime(markers, id, fromTime))
        toState == sortMarkersByTime(MapTime(markers, id, toTime))
    IN setStateWithExplicitHistory(prev, toState, fromState, maxHistory)

\* updateMarkerAtomic: markers is the list of the current render
updateMarkerAtomic(prev, id, fromTime, toTime) ==
    LET markers == prev.present
        fromState == sortMarkersByTime(MapTime(markers, id, fromTime))
        toState == sortMarkersByTime(MapTime(markers, id, toTime))
    IN setStateWithExplicitHistory(prev, fromState, toState, maxHistory)

updateMarkerName(prev, id, name) ==
    setState(prev, MapName(prev.present, id, name), FreshArray, maxHistory)

updateMarkerEnabled(prev, id, enabled) ==
    setState(prev, MapEnabled(prev.present, id, enabled), FreshArray, maxHistory)

\* a plausible slip: the removal bypasses the history
deleteMarker_silent(prev, id) ==
    setStateWithoutHistory(prev, FilterOutId(prev.present, id))

deleteMarker(prev, id) ==
    setState(prev, FilterOutId(prev.present, id), FreshArray, maxHistory)

\* clearMarkers: setMarkers([])
clearMarkers(prev) == setState(prev, <<>>, FreshArray, maxHistory)

\* a plausible slip: the history survives the reset
reset_keepHistory(prev) == setState(prev, <<>>, FreshArray, maxHistory)

\* reset: setMarkers([]) then clearHistory(), applied in call order
reset(prev) == clearHistory(setState(prev, <<>>, FreshArray, maxHistory))

----------------------------------------------------------------------------
(* Observers *)

NoOp == [op |-> "init", id |-> NoId, hit |-> FALSE, afterUndo |-> FALSE]

\* the record of the operation being performed in this step
Note(op, id, hit) ==
    [op |-> op, id |-> id, hit |-> hit, afterUndo |-> (lastOp.op = "undo" /\ lastOp.hit)]

NoDrag == [phase |-> "none", id |-> NoId, from |-> 0, to |-> 0,
           pastLen |-> 0, silent |-> FALSE]

HistoriedOps == {"addMarker", "updateMarker", "updateMarkerAtomic",
                 "updateMarkerName", "updateMarkerEnabled", "deleteMarker"}

IdOps == {"updateMarker", "updateMarkerSilent", "updateMarkerAtomic",
          "updateMarkerName", "updateMarkerEnabled", "deleteMarker"}

IdArgs == 1..MaxMarkers

----------------------------------------------------------------------------
(* The store: one action per operation of useMarkers *)

StoreInit ==
    /\ history = InitialHistory(<<>>)
    /\ selectedMarkerId = NoId
    /\ nextId = 1
    /\ ops = 0
    /\ lastOp = NoOp
    /\ drag = NoDrag
    /\ afterReset = FALSE

PureIdle ==
    /\ markersIn = <<>>
    /\ sections = <<>>
    /\ played = [called |-> FALSE, startTime |-> 0, endTime |-> 0, sectionId |-> 0]
    /\ keyEvent = ""

NoMods == [ctrlOrMeta |-> FALSE, shiftKey |-> FALSE, inInput |-> FALSE]

NoPending == [kind |-> "none"]

\* useExportProgress after mount
NoProgress == [progress |-> 0, currentItem |-> 0, totalItems |-> 0]

NoRefs == [audioBufferRef |-> 0, pausedAtRef |-> 0,
           segmentStartTimeRef |-> 0, segmentEndTimeRef |-> 0]

NoZoom == [op |-> "init", time |-> <<0, 1>>, oldPan |-> <<0, 1>>,
           oldZoom |-> <<1, 1>>, newPan |-> <<0, 1>>]

\* usePlayback after mount, before any AudioContext exists: the states
\* currentTime, segmentStart, segmentEnd, the refs not held in playbackRefs,
\* now (audioContext.currentTime), nodes (source nodes whose ended event is
\* still to be dispatched), frames (animation frames requested and not yet
\* run or cancelled); last is an observer of the step taken last
NoAudio ==
    [currentTime |-> 0, segmentStart |-> 0, segmentEnd |-> 0,
     audioContextRef |-> FALSE, sourceNodeRef |-> 0, gainNodeRef |-> FALSE,
     isPlayingRef |-> FALSE, animationFrameRef |-> 0,
     playbackStartTimestampRef |-> 0,
     now |-> 0, nodes |-> {}, frames |-> {}, nextNode |-> 1,
     last |-> [op |-> "init", node |-> 0, current |-> FALSE]]

\* useState<number | null>(null), "" for null; no timeout is pending
NoFeedback == [pressedKeyboardIndex |-> "", timers |-> 0]

PlaybackIdle ==
    /\ audio = NoAudio
    /\ feedback = NoFeedback

\* no drag gesture is in flight
NoGesture == [id |-> NoId, preDragTime |-> 0, moved |-> FALSE, lastTime |-> 0]

\* WaveformCanvas refs after mount, with the button and the position of the
\* mouse; phase, downMarker, dragged, downHistory, upX and moves are
\* observers of the gesture in flight or just finished
NoPointer ==
    [buttonDown |-> FALSE, lastX |-> 0,
     isDraggingRef |-> FALSE, isDraggingMarkerRef |-> FALSE,
     draggingMarkerIdRef |-> NoId, hasDraggedRef |-> FALSE,
     dragStartXRef |-> 0, dragStartPanRef |-> <<0, 1>>,
     phase |-> "none", downMarker |-> NoId, dragged |-> FALSE,
     downHistory |-> InitialHistory(<<>>), upX |-> 0, moves |-> 0]

GestureIdle ==
    /\ gesture = NoGesture
    /\ pointer = NoPointer
    /\ committed = <<>>

\* App before any file is dropped; useZoom({duration: 0, minZoom: 1, ...})
AppIdle ==
    /\ GestureIdle
    /\ keyMods = NoMods
    /\ audioDuration = 0
    /\ audioBuffer = 0
    /\ waveformData = FALSE
    /\ isLoading = FALSE
    /\ pending = NoPending
    /\ exportingSectionId = <<>>
    /\ isExporting = FALSE
    /\ exportProgress = NoProgress
    /\ playbackState = "idle"
    /\ playbackRefs = NoRefs
    /\ PlaybackIdle
    /\ zoomStep = <<6, 5>>
    /\ zoomLevel = <<1, 1>>
    /\ panOffset = <<0, 1>>
    /\ lastZoom = NoZoom

\* what every operation other than the commit/undo/redo chain does to the
\* observers
Plain(op, id, hit) ==
    /\ ops' = ops + 1
    /\ lastOp' = Note(op, id, hit)
    /\ drag' = NoDrag
    /\ afterReset' = FALSE

\* addMarker reads newMarker right after handing the updater to setMarkers.
\* updaterRan: React has already run the updater at that point; when it has
\* not, newMarker is unassigned, `newMarker!.id` throws, and the marker is
\* added by the queued updater without being selected or returned.
AddMarker(time, updaterRan) ==
    /\ ops < MaxOps
    /\ nextId <= MaxMarkers
    /\ history' = addMarker(history, nextId, time)
    /\ selectedMarkerId' = IF updaterRan THEN nextId ELSE selectedMarkerId
    /\ nextId' = nextId + 1
    /\ Plain("addMarker", nextId, TRUE)
    /\ UNCHANGED <<pureVars, appVars>>

UpdateMarker(id, time) ==
    /\ ops < MaxOps
    /\ history' = updateMarker(history, id, time)
    /\ Plain("updateMarker", id, HasId(history.present, id))
    /\ UNCHANGED <<selectedMarkerId, nextId>>
    /\ UNCHANGED <<pureVars, appVars>>

UpdateMarkerSilent(id, time) ==
    /\ ops < MaxOps
    /\ history' = updateMarkerSilent(history, id, time)
    /\ Plain("updateMarkerSilent", id, HasId(history.present, id))
    /\ UNCHANGED <<selectedMarkerId, nextId>>
    /\ UNCHANGED <<pureVars, appVars>>

UpdateMarkerAtomic(id, fromTime, toTime) ==
    /\ ops < MaxOps
    /\ history' = updateMarkerAtomic(history, id, fromTime, toTime)
    /\ ops' = ops + 1
    /\ lastOp' = Note("updateMarkerAtomic", id, HasId(history.present, id))
    /\ drag' = IF HasId(history.present, id)
               THEN [phase |-> "committed", id |-> id,
                     from |-> fromTime, to |-> toTime,
                     pastLen |-> Len(history.past),
                     silent |-> (/\ lastOp.op = "updateMarkerSilent"
                                 /\ lastOp.id = id)]
               ELSE NoDrag
    /\ afterReset' = FALSE
    /\ UNCHANGED <<selectedMarkerId, nextId>>
    /\ UNCHANGED <<pureVars, appVars>>

UpdateMarkerName(id, name) ==
    /\ ops < MaxOps
    /\ history' = updateMarkerName(history, id, name)
    /\ Plain("updateMarkerName", id, HasId(history.present, id))
    /\ UNCHANGED <<selectedMarkerId, nextId>>
    /\ UNCHANGED <<pureVars, appVars>>

UpdateMarkerEnabled(id, enabled) ==
    /\ ops < MaxOps
    /\ history' = updateMarkerEnabled(history, id, enabled)
    /\ Plain("updateMarkerEnabled", id, HasId(history.present, id))
    /\ UNCHANGED <<selectedMarkerId, nextId>>
    /\ UNCHANGED <<pureVars, appVars>>

DeleteMarker(id) ==
    /\ ops < MaxOps
    /\ history' = deleteMarker(history, id)
    /\ selectedMarkerId' = IF selectedMarkerId = id THEN NoId ELSE selectedMarkerId
    /\ Plain("deleteMarker", id, HasId(history.present, id))
    /\ UNCHANGED nextId
    /\ UNCHANGED <<pureVars, appVars>>

ClearMarkers ==
    /\ ops < MaxOps
    /\ history' = clearMarkers(history)
    /\ selectedMarkerId' = NoId
    /\ Plain("clearMarkers", NoId, TRUE)
    /\ UNCHANGED nextId
    /\ UNCHANGED <<pureVars, appVars>>

Reset ==
    /\ ops < MaxOps
    /\ history' = reset(history)
    /\ selectedMarkerId' = NoId
    /\ ops' = ops + 1
    /\ lastOp' = Note("reset", NoId, TRUE)
    /\ drag' = NoDrag
    /\ afterReset' = TRUE
    /\ UNCHANGED nextId
    /\ UNCHANGED <<pureVars, appVars>>

Undo ==
    /\ ops < MaxOps
    /\ history' = undo(history)
    /\ ops' = ops + 1
    /\ lastOp' = Note("undo", NoId, canUndoOf(history))
    /\ drag' = IF drag.phase = "committed"
               THEN [drag EXCEPT !.phase = "undone"] ELSE NoDrag
    /\ UNCHANGED <<selectedMarkerId, nextId, afterReset>>
    /\ UNCHANGED <<pureVars, appVars>>

Redo ==
    /\ ops < MaxOps
    /\ history' = redo(history)
    /\ ops' = ops + 1
    /\ lastOp' = Note("redo", NoId, canRedoOf(history))
    /\ drag' = IF drag.phase = "undone"
               THEN [drag EXCEPT !.phase = "redone"] ELSE NoDrag
    /\ UNCHANGED <<selectedMarkerId, nextId, afterReset>>
    /\ UNCHANGED <<pureVars, appVars>>

Init == StoreInit /\ PureIdle /\ AppIdle

Next ==
    \/ \E time \in Times, updaterRan \in BOOLEAN : AddMarker(time, updaterRan)
    \/ \E id \in IdArgs, time \in Times : UpdateMarker(id, time)
    \/ \E id \in IdArgs, time \in Times : UpdateMarkerSilent(id, time)
    \/ \E id \in IdArgs, fromTime \in Times, toTime \in Times :
          UpdateMarkerAtomic(id, fromTime, toTime)
    \/ \E id \in IdArgs, name \in CustomNames : UpdateMarkerName(id, name)
    \/ \E id \in IdArgs, enabled \in BOOLEAN : UpdateMarkerEnabled(id, enabled)
    \/ \E id \in IdArgs : DeleteMarker(id)
    \/ ClearMarkers
    \/ Reset
    \/ Undo
    \/ Redo

Spec == Init /\ [][Next]_vars

----------------------------------------------------------------------------
(* The bare engine over numbers: useUndoRedo<number>(0) with the default   *)
(* capacity, driven by a run of distinct edits followed by undos.          *)

TruncInit ==
    /\ history = InitialHistory(0)
    /\ selectedMarkerId = NoId
    /\ nextId = 1
    /\ ops = 0
    /\ lastOp = NoOp
    /\ drag = NoDrag
    /\ afterReset = FALSE
    /\ PureIdle
    /\ AppIdle

\* the k-th edit: setState(k)
TruncEdit ==
    /\ ops < MaxEdits
    /\ lastOp.op # "undo"
    /\ history' = setState(history, ops + 1, ops + 1 = history.present,
                           DEFAULT_MAX_HISTORY)
    /\ ops' = ops + 1
    /\ lastOp' = Note("setState", NoId, TRUE)
    /\ UNCHANGED <<selectedMarkerId, nextId, drag, afterReset>>
    /\ UNCHANGED <<pureVars, appVars>>

TruncUndo ==
    /\ ops > 0
    /\ history' = undo(history)
    /\ lastOp' = Note("undo", NoId, canUndoOf(history))
    /\ UNCHANGED <<selectedMarkerId, nextId, ops, drag, afterReset>>
    /\ UNCHANGED <<pureVars, appVars>>

TruncNext == TruncEdit \/ TruncUndo

SpecTrunc == TruncInit /\ [][TruncNext]_vars

----------------------------------------------------------------------------
(* utils/sections: the section deriver *)

\* id: `section-${startMarker.id}-${endMarker.id}`
SectionId(startMarker, endMarker) == <<"section", startMarker.id, endMarker.id>>

\* a plausible slip: the end of the section is read from its start marker
Section_ownEnd(startMarker, endMarker) ==
    [id          |-> SectionId(startMarker, endMarker),
     startMarker |-> startMarker,
     endMarker   |-> endMarker,
     startTime   |-> startMarker.time,
     endTime     |-> startMarker.time,
     name        |-> startMarker.name]

Section(startMarker, endMarker) ==
    [id          |-> SectionId(startMarker, endMarker),
     startMarker |-> startMarker,
     endMarker   |-> endMarker,
     startTime   |-> startMarker.time,
     endTime     |-> endMarker.time,
     name        |-> startMarker.name]

\* a plausible slip: the markers are paired in the order they arrive
getSections_unsorted(markers) ==
    IF Len(markers) < 2 THEN <<>>
    ELSE [i \in 1..(Len(markers) - 1) |-> Section(markers[i], markers[i + 1])]

getSections(markers) ==
    IF Len(markers) < 2 THEN <<>>
    ELSE LET sortedMarkers == StableSortByTime(markers)
         IN [i \in 1..(Len(sortedMarkers) - 1) |->
                Section(sortedMarkers[i], sortedMarkers[i + 1])]

\* the marker lists handed to the deriver: any order, ties allowed, ids unique
InputTimes == {0, 1, 2}

InputMarkers ==
    {Marker(id, time, SectionName(id), TRUE) : id \in 1..MaxLen, time \in InputTimes}

InputLists ==
    UNION {{l \in [1..n -> InputMarkers] :
               \A i, j \in 1..n : i # j => l[i].id # l[j].id} : n \in 0..MaxLen}

SectionsInit ==
    /\ StoreInit
    /\ markersIn \in InputLists
    /\ sections = <<>>
    /\ played = [called |-> FALSE, startTime |-> 0, endTime |-> 0, sectionId |-> 0]
    /\ keyEvent = ""
    /\ AppIdle

\* App: sections = getSections(markers, audioDuration)
DeriveSections ==
    /\ lastOp.op = "init"
    /\ sections' = getSections(markersIn)
    /\ lastOp' = Note("getSections", NoId, TRUE)
    /\ UNCHANGED <<history, selectedMarkerId, nextId, ops, drag, afterReset>>
    /\ UNCHANGED <<markersIn, played, keyEvent, appVars>>

SectionsNext == DeriveSections

SpecSections == SectionsInit /\ [][SectionsNext]_vars

----------------------------------------------------------------------------
(* constants/keyboardMapping and the section keys of handleKeyDown *)

KEY_ORDER ==
    <<"1", "2", "3", "4", "5", "6", "7", "8", "9", "0",
      "q", "w", "e", "r", "t", "y", "u", "i", "o", "p",
      "a", "s", "d", "f", "g", "h", "j", "k", "l",
      "z", "x", "c", "v", "b", "n", "m">>

UpperCase ==
    <<"Q", "W", "E", "R", "T", "Y", "U", "I", "O", "P",
      "A", "S", "D", "F", "G", "H", "J", "K", "L",
      "Z", "X", "C", "V", "B", "N", "M">>

\* String.prototype.toLowerCase on a one-character key
ToLowerCase(key) ==
    IF \E i \in DOMAIN UpperCase : UpperCase[i] = key
    THEN KEY_ORDER[10 + (CHOOSE i \in DOMAIN UpperCase : UpperCase[i] = key)]
    ELSE key

\* KEY_ORDER.includes(key)
KeyOrderIncludes(key) == \E i \in DOMAIN KEY_ORDER : KEY_ORDER[i] = key

\* KEY_ORDER.indexOf(key.toLowerCase()): zero-based, -1 if absent
getIndexForKey(key) ==
    LET k == ToLowerCase(key)
    IN IF KeyOrderIncludes(k)
       THEN (CHOOSE i \in DOMAIN KEY_ORDER : KEY_ORDER[i] = k) - 1
       ELSE -1

\* a plausible slip: indexes past the alphabet wrap around to its start
getKeyForIndex_wrap(index) ==
    IF index < 0 THEN "" ELSE KEY_ORDER[(index % Len(KEY_ORDER)) + 1]

\* getKeyForIndex: "" stands for undefined
getKeyForIndex(index) ==
    IF index < 0 \/ index >= Len(KEY_ORDER) THEN "" ELSE KEY_ORDER[index + 1]

\* a plausible slip: disabled sections keep their place in the mapping
EnabledSections_all(secs) == secs

\* sections.filter(s => s.enabled)
EnabledSections(secs) == SelectSeq(secs, LAMBDA sec : sec.enabled)

NoCall == [called |-> FALSE, startTime |-> 0, endTime |-> 0, sectionId |-> 0]

\* the onPlaySegment call a plain character key leads to, if any
ResolveKey(secs, key) ==
    LET keyLower == ToLowerCase(key)
        sectionIndex == getIndexForKey(keyLower)
        enabledSections == EnabledSections(secs)
    IN IF ~KeyOrderIncludes(keyLower) THEN NoCall
       ELSE IF sectionIndex >= Len(enabledSections) THEN NoCall
       ELSE LET section == enabledSections[sectionIndex + 1]
            IN [called |-> TRUE, startTime |-> section.startTime,
                endTime |-> section.endTime, sectionId |-> section.id]

\* section lists handed to the handler: any order of start times
SectionStarts == {2, 5, 8}

KeySection(id, startTime, enabled) ==
    [id |-> id, startTime |-> startTime, endTime |-> startTime + 1,
     enabled |-> enabled]

KeySectionLists ==
    UNION {{[i \in 1..n |-> KeySection(i, st[i], en[i])] :
               st \in [1..n -> SectionStarts], en \in [1..n -> BOOLEAN]} :
           n \in 0..MaxSections}

\* event.key of the plain character keys delivered to the handler
PlainKeys == {"1", "2", "3", "4", "5", "q", "Q", "-"}

KeysInit ==
    /\ StoreInit
    /\ markersIn = <<>>
    /\ sections \in KeySectionLists
    /\ played = NoCall
    /\ keyEvent = ""
    /\ AppIdle

\* handleKeyDown for a character key pressed without modifier outside an
\* input element; played is the onPlaySegment call of this event
HandleKeyDown(key) ==
    /\ keyEvent' = key
    /\ played' = ResolveKey(sections, key)
    /\ lastOp' = Note("keydown", NoId, played'.called)
    /\ UNCHANGED <<history, selectedMarkerId, nextId, ops, drag, afterReset>>
    /\ UNCHANGED <<markersIn, sections, appVars>>

KeysNext == \E key \in PlainKeys : HandleKeyDown(key)

SpecKeys == KeysInit /\ [][KeysNext]_vars

----------------------------------------------------------------------------
(* Properties of the store *)

IsSortedByTime(markers) ==
    \A i \in 1..(Len(markers) - 1) : markers[i].time <= markers[i + 1].time

\* C1: after any sequence of store operations the marker list read back
\* from the store is sorted ascending by time.
C1_SortInvariant == IsSortedByTime(history.present)

\* a positional update has moved the younger marker in front of the older
C1_Witness ==
    /\ lastOp.op \in {"updateMarker", "updateMarkerSilent", "updateMarkerAtomic"}
    /\ lastOp.hit
    /\ Len(history.present) = 2
    /\ history.present[1].id = 2
    /\ history.present[1].time < history.present[2].time

C3_RedoInvalidation ==
    (lastOp.op \in HistoriedOps /\ lastOp.afterUndo) =>
        (history.future = <<>> /\ ~canRedoOf(history))

C3_Witness ==
    /\ lastOp.op \in HistoriedOps
    /\ lastOp.afterUndo
    /\ ~canRedoOf(history)

\* C4: after reset() the marker list, past and future are empty, and they
\* stay empty under any number of undo and redo calls that follow.
C4_ResetIrreversible ==
    afterReset =>
        /\ history.present = <<>>
        /\ ~canUndoOf(history)
        /\ ~canRedoOf(history)

\* markers had been created, reset happened, then undo or redo was tried
C4_Witness ==
    /\ afterReset
    /\ nextId > 1
    /\ lastOp.op \in {"undo", "redo"}

\* C5: clearMarkers() empties the marker list and leaves past and future
\* as they were.
C5_ClearMarkersNotHistoried ==
    [][(ops' # ops /\ lastOp'.op = "clearMarkers") =>
          /\ history'.present = <<>>
          /\ history'.past = history.past
          /\ history'.future = history.future]_vars

\* C6: an operation naming an id that is not in the marker list changes
\* neither the marker list nor past nor future.
C6_MissingIdNoOp ==
    [][(ops' # ops /\ lastOp'.op \in IdOps /\ ~lastOp'.hit) =>
          history' = history]_vars

\* C8: past never holds more than maxHistory entries, and an edit made at
\* capacity drops the oldest entry and keeps the others in order.
C8_PastBounded ==
    [][/\ Len(history'.past) <= maxHistory
       /\ (/\ ops' # ops
           /\ lastOp'.op \in HistoriedOps \cup {"clearMarkers"}
           /\ Len(history.past) = maxHistory) =>
              /\ Len(history'.past) = maxHistory
              /\ SubSeq(history'.past, 1, maxHistory - 1) = Tail(history.past)]_vars

\* an edit has been made at capacity: the initial empty list is gone
C8_Witness ==
    /\ Len(history.past) = maxHistory
    /\ lastOp.op \in HistoriedOps
    /\ history.past[1] # <<>>

----------------------------------------------------------------------------
(* Properties of the bare engine *)

FullyUndone == lastOp.op = "undo" /\ ~canUndoOf(history)

\* C7 as stated: after exactly maxHistory distinct edits, undoing as often
\* as possible does not reach the original state.
C7_DiscardedAfterMaxEdits ==
    (ops = DEFAULT_MAX_HISTORY /\ FullyUndone) => history.present # 0

\* C7 amended: the oldest entry is discarded by edit maxHistory + 1.
\* Undoing as often as possible reaches the original state after up to
\* maxHistory edits, and the state after edit n - maxHistory after n
\* edits beyond that.
C7_DiscardedAfterMaxPlusOne ==
    FullyUndone =>
        history.present = IF ops <= DEFAULT_MAX_HISTORY THEN 0
                          ELSE ops - DEFAULT_MAX_HISTORY

\* maxHistory + 1 edits, then maxHistory + 1 undo attempts
C7_Witness ==
    /\ ops = DEFAULT_MAX_HISTORY + 1
    /\ lastOp.op = "undo"
    /\ ~lastOp.hit
    /\ history.present = 1

----------------------------------------------------------------------------
(* Properties of the section deriver *)

\* the markers a section list runs through, first to last
Chain(secs) ==
    IF secs = <<>> THEN <<>>
    ELSE [i \in 1..(Len(secs) + 1) |->
             IF i <= Len(secs) THEN secs[i].startMarker
             ELSE secs[Len(secs)].endMarker]

\* out is the input reordered by ascending time with ties in input order
IsStableSortOf(out, in) ==
    /\ Len(out) = Len(in)
    /\ \A i \in DOMAIN in : \E j \in DOMAIN out : out[j] = in[i]
    /\ IsSortedByTime(out)
    /\ \A i, j \in DOMAIN out :
          (i < j /\ out[i].time = out[j].time) =>
              IndexOfId(in, out[i].id) < IndexOfId(in, out[j].id)

\* C9: a list of N markers in any order yields max(0, N-1) sections;
\* section i starts at the i-th marker in stable time order and ends at
\* the next one, so nothing before the first or after the last marker is
\* a section.
C9_SectionCount ==
    lastOp.op = "getSections" =>
        LET N == Len(markersIn)
        IN /\ Len(sections) = (IF N >= 1 THEN N - 1 ELSE 0)
           /\ N >= 2 => IsStableSortOf(Chain(sections), markersIn)
           /\ \A i \in 1..(Len(sections) - 1) :
                 sections[i].endMarker = sections[i + 1].startMarker

\* three markers handed over out of order, two of them tied
C9_Witness ==
    /\ lastOp.op = "getSections"
    /\ Len(markersIn) = 3
    /\ markersIn[1].time > markersIn[2].time
    /\ markersIn[2].time = markersIn[3].time
    /\ Len(sections) = 2

----------------------------------------------------------------------------
(* Properties of the key mapping *)

PositionOfSection(id) == CHOOSE i \in DOMAIN sections : sections[i].id = id

\* enabled sections in front of section i in the list
EnabledBefore(i) ==
    Cardinality({j \in DOMAIN sections : j < i /\ sections[j].enabled})

\* enabled sections in front of section i in ascending start-time order,
\* ties in list order
EnabledEarlier(i) ==
    Cardinality({j \in DOMAIN sections :
        /\ sections[j].enabled
        /\ \/ sections[j].startTime < sections[i].startTime
           \/ (sections[j].startTime = sections[i].startTime /\ j < i)})

EnabledCount == Cardinality({j \in DOMAIN sections : sections[j].enabled})

PressedIndex == getIndexForKey(keyEvent)

IsSortedByStart ==
    \A i \in 1..(Len(sections) - 1) :
        sections[i].startTime <= sections[i + 1].startTime

----------------------------------------------------------------------------
(* App: file loading, the editor's pointer and menu handlers, the complete *)
(* keyboard handler, playback state and export, on top of the store        *)

\* number of handler invocations in one explored run of the App
AppMaxOps == 7
\* number of markers ever created in one explored run of the App
AppMaxMarkers == 3

\* metadata.duration of the files that can be dropped, by file number
FileDurations == <<120, 30>>
\* times under the pointer, before clamping
PointerTimes == {10, 40, 90}
\* seconds between the start of playback and a pause, as the audio clock
\* reports them
Elapsed == {0, 5}

Max(a, b) == IF a >= b THEN a ELSE b

\* Math.max(0, Math.min(time, peaks.duration))
ClampTime(time, duration) == Max(0, Min(time, duration))

\* the section deriver's enabled field: enabled = startMarker.enabled
WithEnabled(section) ==
    [id          |-> section.id,
     startMarker |-> section.startMarker,
     endMarker   |-> section.endMarker,
     startTime   |-> section.startTime,
     endTime     |-> section.endTime,
     name        |-> section.name,
     enabled     |-> section.startMarker.enabled]

\* a plausible slip: the flag is read from the marker that ends the section
AppSections_endMarker(markers) ==
    LET secs == getSections(markers)
    IN [i \in DOMAIN secs |->
           [WithEnabled(secs[i]) EXCEPT !.enabled = secs[i].endMarker.enabled]]

\* App: sections = useMemo(() => getSections(markers, audioDuration))
AppSections(markers) ==
    LET secs == getSections(markers)
    IN [i \in DOMAIN secs |-> WithEnabled(secs[i])]

SectionIds(secs) == {secs[i].id : i \in DOMAIN secs}

\* sections.find(s => s.id === sectionId)
FindSection(secs, sectionId) ==
    secs[CHOOSE i \in DOMAIN secs :
            /\ secs[i].id = sectionId
            /\ \A j \in DOMAIN secs : secs[j].id = sectionId => i <= j]

\* a plausible slip: the numbers are handed out to disabled sections too
getKeyboardIndexMap_all(secs) ==
    [id \in SectionIds(secs) |->
        LET i == CHOOSE i \in DOMAIN secs :
                    /\ secs[i].id = id
                    /\ \A j \in DOMAIN secs : secs[j].id = id => j <= i
        IN IF i - 1 < 9 THEN i ELSE 0]

\* MarkerControlStrip.getKeyboardIndexMap: the number shown on a section,
\* 0 where the map has no entry
getKeyboardIndexMap(secs) ==
    LET enabledSections == SelectSeq(secs, LAMBDA sec : sec.enabled)
    IN [id \in SectionIds(secs) |->
           IF \E i \in DOMAIN enabledSections :
                  enabledSections[i].id = id /\ i - 1 < 9
           THEN CHOOSE i \in DOMAIN enabledSections :
                    /\ enabledSections[i].id = id
                    /\ \A j \in DOMAIN enabledSections :
                           enabledSections[j].id = id => j <= i
           ELSE 0]

\* findMarkerAtPixel: the first marker drawn under the pointer, NoId if none
findMarkerAtPixel(markers, time) ==
    IF \E i \in DOMAIN markers : markers[i].time = time
    THEN markers[CHOOSE i \in DOMAIN markers :
                    /\ markers[i].time = time
                    /\ \A j \in DOMAIN markers : markers[j].time = time => i <= j].id
    ELSE NoId

(* usePlayback *)

Playback(state, refs) == [state |-> state, refs |-> refs]

playSegment(pb, buffer, startTime, endTime) ==
    IF buffer = 0 THEN pb
    ELSE Playback("playing",
                  [audioBufferRef |-> buffer, pausedAtRef |-> 0,
                   segmentStartTimeRef |-> startTime,
                   segmentEndTimeRef |-> endTime])

stop(pb) == Playback("idle", [pb.refs EXCEPT !.pausedAtRef = 0])

\* isPlayingRef is true exactly while the state is "playing"
pause(pb, elapsed) ==
    IF pb.state # "playing" THEN pb
    ELSE Playback("paused",
                  [pb.refs EXCEPT !.pausedAtRef = pb.refs.segmentStartTimeRef + elapsed])

resume(pb, buffer) ==
    IF buffer = 0 \/ pb.refs.pausedAtRef = 0 THEN pb
    ELSE IF pb.refs.audioBufferRef # buffer
         THEN Playback(pb.state, [pb.refs EXCEPT !.audioBufferRef = buffer])
         ELSE Playback("playing",
                       [pb.refs EXCEPT !.segmentStartTimeRef = pb.refs.pausedAtRef])

(* the keyboard handler *)

KeyEvent(key, ctrlOrMeta, shiftKey, inInput) ==
    [key |-> key,
     mods |-> [ctrlOrMeta |-> ctrlOrMeta, shiftKey |-> shiftKey, inInput |-> inInput]]

\* the key events delivered to the window
AppKeyEvents ==
    {KeyEvent("1", FALSE, FALSE, FALSE), KeyEvent("2", FALSE, FALSE, FALSE),
     KeyEvent("1", FALSE, FALSE, TRUE),  KeyEvent("z", FALSE, FALSE, FALSE),
     KeyEvent("z", TRUE, FALSE, FALSE),  KeyEvent("Z", TRUE, TRUE, FALSE),
     KeyEvent(" ", FALSE, FALSE, FALSE), KeyEvent("Escape", FALSE, FALSE, FALSE)}

\* (event.metaKey || event.ctrlKey) && key.toLowerCase() === 'z'
IsUndoRedoChord(ev) == ev.mods.ctrlOrMeta /\ ToLowerCase(ev.key) = "z"

\* the branch of handleKeyDown an event takes
KeyBranch(ev) ==
    IF ev.mods.inInput THEN "keyIgnored"
    ELSE IF ev.key = "Escape" THEN "keyEscape"
    ELSE IF ev.key = " " THEN "keySpace"
    ELSE IF IsUndoRedoChord(ev) THEN (IF ev.mods.shiftKey THEN "keyRedo" ELSE "keyUndo")
    ELSE "keySection"

\* a plausible slip: the chord is not skipped during playback
ChordHistory_ignorePlayback(ev, h, state) ==
    IF KeyBranch(ev) = "keyRedo" /\ canRedoOf(h) THEN redo(h)
    ELSE IF KeyBranch(ev) = "keyUndo" /\ canUndoOf(h) THEN undo(h)
    ELSE h

\* the history after the undo/redo branch of handleKeyDown
ChordHistory(ev, h, state) ==
    IF state = "playing" THEN h
    ELSE IF KeyBranch(ev) = "keyRedo" /\ canRedoOf(h) THEN redo(h)
    ELSE IF KeyBranch(ev) = "keyUndo" /\ canUndoOf(h) THEN undo(h)
    ELSE h

\* the playback after the Escape, Space and section-key branches
KeyPlayback(ev, pb, buffer, call, elapsed) ==
    IF KeyBranch(ev) = "keyEscape"
    THEN (IF pb.state \in {"playing", "paused"} THEN stop(pb) ELSE pb)
    ELSE IF KeyBranch(ev) = "keySpace"
    THEN (IF pb.state = "playing" THEN pause(pb, elapsed)
          ELSE IF pb.state = "paused" THEN resume(pb, buffer)
          ELSE pb)
    ELSE IF KeyBranch(ev) = "keySection" /\ call.called
    THEN playSegment(pb, buffer, call.startTime, call.endTime)
    ELSE pb

AppFrame(op, id, hit) ==
    /\ ops' = ops + 1
    /\ lastOp' = Note(op, id, hit)
    /\ drag' = NoDrag
    /\ afterReset' = FALSE
    /\ markersIn' = markersIn
    /\ sections' = AppSections(history'.present)
    /\ UNCHANGED <<zoomVars, gestureVars>>

\* a step that delivers no key event
NoKey ==
    /\ keyEvent' = ""
    /\ keyMods' = NoMods
    /\ played' = NoCall

\* window keydown -> handleKeyDown
AppKeyDown(ev, elapsed) ==
    /\ LET call == IF KeyBranch(ev) = "keySection"
                   THEN ResolveKey(sections, ev.key) ELSE NoCall
           pb == KeyPlayback(ev, Playback(playbackState, playbackRefs),
                             audioBuffer, call, elapsed)
           h == IF KeyBranch(ev) \in {"keyUndo", "keyRedo"}
                THEN ChordHistory(ev, history, playbackState) ELSE history
       IN /\ keyEvent' = ev.key
          /\ keyMods' = ev.mods
          /\ played' = call
          /\ playbackState' = pb.state
          /\ playbackRefs' = pb.refs
          /\ UNCHANGED <<audio, feedback>>
          /\ history' = h
          /\ AppFrame(KeyBranch(ev), NoId,
                      call.called \/ h # history
                        \/ pb # Playback(playbackState, playbackRefs))
    /\ UNCHANGED <<selectedMarkerId, nextId, fileVars, exportVars>>

\* the source node's onended / the tick reaching the end of the segment
PlaybackEnded ==
    /\ playbackState = "playing"
    /\ playbackState' = "idle"
    /\ NoKey
    /\ UNCHANGED <<history, selectedMarkerId, nextId,
                   playbackRefs, audio, feedback, fileVars, exportVars>>
    /\ AppFrame("playbackEnded", NoId, TRUE)

(* file loading: handleFileLoaded up to its await, and after it *)

LoadStart(file) ==
    /\ pending = NoPending
    /\ isLoading' = TRUE
    /\ pending' = [kind |-> "load", file |-> file]
    /\ NoKey
    /\ UNCHANGED <<history, selectedMarkerId, nextId,
                   audioDuration, audioBuffer, waveformData, exportVars, playVars>>
    /\ AppFrame("loadStart", NoId, TRUE)

\* the marker history after decodeFile settled with this outcome
LoadedHistory(h, outcome) ==
    IF outcome = "decodeError" THEN h ELSE clearMarkers(h)

\* decodeFile resolves or rejects; extractPeaks returns or throws
LoadFinish(outcome) ==
    /\ pending.kind = "load"
    /\ history' = LoadedHistory(history, outcome)
    /\ IF outcome = "decodeError"
       THEN UNCHANGED <<audioBuffer, audioDuration, selectedMarkerId>>
       ELSE /\ audioBuffer' = pending.file
            /\ audioDuration' = FileDurations[pending.file]
            /\ selectedMarkerId' = NoId
    /\ waveformData' = (outcome = "ok")
    /\ isLoading' = FALSE
    /\ pending' = NoPending
    /\ ops' = ops + 1
    /\ lastOp' = Note(outcome, NoId, TRUE)
    /\ drag' = NoDrag
    /\ afterReset' = FALSE
    /\ sections' = AppSections(history'.present)
    /\ IF outcome = "decodeError"
       THEN UNCHANGED <<zoomLevel, panOffset>>
       ELSE zoomLevel' = <<1, 1>> /\ panOffset' = <<0, 1>>
    /\ NoKey
    /\ UNCHANGED <<nextId, markersIn, exportVars,
                   playVars, zoomStep, lastZoom, gestureVars>>

(* the editor, shown while waveformData is set *)

\* WaveformCanvas.handleMouseUp after a press without movement
CanvasClick(time, updaterRan) ==
    /\ waveformData
    /\ LET clickedMarkerId == findMarkerAtPixel(history.present, time)
       IN IF clickedMarkerId # NoId
          THEN /\ selectedMarkerId' = clickedMarkerId
               /\ UNCHANGED <<history, nextId>>
               /\ AppFrame("selectMarker", clickedMarkerId, TRUE)
          ELSE IF selectedMarkerId # NoId
          THEN /\ selectedMarkerId' = NoId
               /\ UNCHANGED <<history, nextId>>
               /\ AppFrame("selectMarker", NoId, TRUE)
          ELSE /\ nextId <= AppMaxMarkers
               /\ history' = addMarker(history, nextId,
                                       ClampTime(time, audioDuration))
               /\ selectedMarkerId' = IF updaterRan THEN nextId ELSE NoId
               /\ nextId' = nextId + 1
               /\ AppFrame("addMarker", nextId, TRUE)
    /\ NoKey
    /\ UNCHANGED <<fileVars, exportVars, playVars>>

\* WaveformCanvas.handleMouseMove while the selected marker is dragged
CanvasDrag(time) ==
    /\ waveformData
    /\ selectedMarkerId # NoId
    /\ HasId(history.present, selectedMarkerId)
    /\ history' = updateMarker(history, selectedMarkerId,
                               ClampTime(time, audioDuration))
    /\ AppFrame("updateMarker", selectedMarkerId, TRUE)
    /\ NoKey
    /\ UNCHANGED <<selectedMarkerId, nextId,
                   fileVars, exportVars, playVars>>

\* App.handleToggleSectionEnabled
ToggleSectionEnabled(sectionId) ==
    /\ waveformData
    /\ sectionId \in SectionIds(sections)
    /\ LET section == FindSection(sections, sectionId)
       IN /\ history' = updateMarkerEnabled(history, section.startMarker.id,
                                            ~section.enabled)
          /\ AppFrame("toggleEnabled", section.startMarker.id, TRUE)
    /\ NoKey
    /\ UNCHANGED <<selectedMarkerId, nextId,
                   fileVars, exportVars, playVars>>

\* MarkerControlStrip's close icon -> deleteMarker
AppDeleteMarker(id) ==
    /\ waveformData
    /\ HasId(history.present, id)
    /\ history' = deleteMarker(history, id)
    /\ selectedMarkerId' = IF selectedMarkerId = id THEN NoId ELSE selectedMarkerId
    /\ AppFrame("deleteMarker", id, TRUE)
    /\ NoKey
    /\ UNCHANGED <<nextId, fileVars, exportVars,
                   playVars>>

(* useExportProgress: the states an operation leaves *)

startExport(total) ==
    [isExporting |-> TRUE,
     counters |-> [progress |-> 0, currentItem |-> 1, totalItems |-> total]]

updateProgress(counters, current, progressPercent) ==
    [counters EXCEPT !.currentItem = current, !.progress = progressPercent]

\* a plausible slip: the counters are reset but the flag is left set
completeExport_keepFlag ==
    [isExporting |-> TRUE,
     counters |-> [progress |-> 100, currentItem |-> 0, totalItems |-> 0]]

completeExport ==
    [isExporting |-> FALSE,
     counters |-> [progress |-> 100, currentItem |-> 0, totalItems |-> 0]]

(* export: handleExportSection and handleExportAll around their awaits *)

ExportSectionStart(sectionId) ==
    /\ waveformData
    /\ audioBuffer # 0
    /\ sectionId \in SectionIds(sections)
    /\ pending = NoPending
    /\ exportingSectionId' = sectionId
    /\ pending' = [kind |-> "exportSection", sectionId |-> sectionId]
    /\ NoKey
    /\ UNCHANGED <<history, selectedMarkerId, nextId,
                   audioDuration, audioBuffer, waveformData, isLoading,
                   isExporting, exportProgress, playVars>>
    /\ AppFrame("exportSectionStart", NoId, TRUE)

\* encodeWav / encodeMp3 / saveAs return (ok) or throw
ExportSectionFinish(ok) ==
    /\ pending.kind = "exportSection"
    /\ exportingSectionId' = <<>>
    /\ pending' = NoPending
    /\ NoKey
    /\ UNCHANGED <<history, selectedMarkerId, nextId,
                   audioDuration, audioBuffer, waveformData, isLoading,
                   isExporting, exportProgress, playVars>>
    /\ AppFrame(IF ok THEN "exported" ELSE "exportError", NoId, TRUE)

ExportAllStart ==
    /\ waveformData
    /\ audioBuffer # 0
    /\ Len(sections) # 0
    /\ pending = NoPending
    /\ isExporting' = startExport(Len(sections)).isExporting
    /\ exportProgress' = startExport(Len(sections)).counters
    /\ pending' = [kind |-> "exportAll", total |-> Len(sections)]
    /\ NoKey
    /\ UNCHANGED <<history, selectedMarkerId, nextId,
                   audioDuration, audioBuffer, waveformData, isLoading,
                   exportingSectionId, playVars>>
    /\ AppFrame("exportAllStart", NoId, TRUE)

\* the encode loop and createZipArchive complete (ok) or one of them throws
ExportAllFinish(ok) ==
    /\ pending.kind = "exportAll"
    /\ isExporting' = completeExport.isExporting
    /\ exportProgress' = completeExport.counters
    /\ pending' = NoPending
    /\ NoKey
    /\ UNCHANGED <<history, selectedMarkerId, nextId,
                   audioDuration, audioBuffer, waveformData, isLoading,
                   exportingSectionId, playVars>>
    /\ AppFrame(IF ok THEN "exported" ELSE "exportError", NoId, TRUE)

AppInit == StoreInit /\ PureIdle /\ AppIdle

\* one more handler runs
More(limit) == ops < limit

AppNext ==
    \/ More(AppMaxOps) /\ \E file \in DOMAIN FileDurations : LoadStart(file)
    \/ More(AppMaxOps) /\ \E outcome \in {"ok", "decodeError", "peaksError"} : LoadFinish(outcome)
    \/ More(AppMaxOps) /\ \E time \in PointerTimes, updaterRan \in BOOLEAN : CanvasClick(time, updaterRan)
    \/ More(AppMaxOps) /\ \E time \in PointerTimes : CanvasDrag(time)
    \/ More(AppMaxOps) /\ \E sectionId \in SectionIds(sections) : ToggleSectionEnabled(sectionId)
    \/ More(AppMaxOps) /\ \E id \in 1..AppMaxMarkers : AppDeleteMarker(id)
    \/ More(AppMaxOps) /\ \E ev \in AppKeyEvents, elapsed \in Elapsed : AppKeyDown(ev, elapsed)
    \/ More(AppMaxOps) /\ PlaybackEnded
    \/ More(AppMaxOps) /\ \E sectionId \in SectionIds(sections) : ExportSectionStart(sectionId)
    \/ More(AppMaxOps) /\ \E ok \in BOOLEAN : ExportSectionFinish(ok)
    \/ More(AppMaxOps) /\ ExportAllStart
    \/ More(AppMaxOps) /\ \E ok \in BOOLEAN : ExportAllFinish(ok)

SpecApp == AppInit /\ [][AppNext]_vars

----------------------------------------------------------------------------
(* The end-to-end run: one file, clicks, section toggles and section keys *)

\* number of handler invocations in one explored end-to-end run
EndToEndMaxOps == 9

EndToEndKeys ==
    {KeyEvent("1", FALSE, FALSE, FALSE), KeyEvent("2", FALSE, FALSE, FALSE)}

EndToEndNext ==
    \/ More(EndToEndMaxOps) /\ LoadStart(1)
    \/ More(EndToEndMaxOps) /\ LoadFinish("ok")
    \/ More(EndToEndMaxOps) /\ \E time \in PointerTimes, updaterRan \in BOOLEAN : CanvasClick(time, updaterRan)
    \/ More(EndToEndMaxOps) /\ \E sectionId \in SectionIds(sections) : ToggleSectionEnabled(sectionId)
    \/ More(EndToEndMaxOps) /\ \E ev \in EndToEndKeys : AppKeyDown(ev, 0)

SpecEndToEnd == AppInit /\ [][EndToEndNext]_vars

\* the markers created first, second and third sit at 10, 40 and 90 of the
\* 120 s file
ScenarioTimes == <<10, 40, 90>>

AddedInOrder ==
    /\ audioDuration = 120
    /\ Len(history.present) = 3
    /\ \A i \in 1..3 : /\ history.present[i].id = i
                       /\ history.present[i].time = ScenarioTimes[i]
    /\ history.present[2].enabled

PressedOne == lastOp.op = "keySection" /\ keyEvent = "1"

----------------------------------------------------------------------------
(* Properties of the App *)

\* the number MarkerControlStrip shows on section i, 0 for none
LabelOf(i) == getKeyboardIndexMap(sections)[sections[i].id]

C15_ChordGuard ==
    [][(ops' = ops + 1 /\ lastOp'.op \in {"keyUndo", "keyRedo"}) =>
          IF playbackState = "playing" THEN history' = history
          ELSE IF lastOp'.op = "keyUndo"
          THEN history' = (IF canUndoOf(history) THEN undo(history) ELSE history)
          ELSE history' = (IF canRedoOf(history) THEN redo(history) ELSE history)]_vars

\* the undo chord arrived during playback with something to undo
C15_Witness ==
    /\ lastOp.op = "keyUndo"
    /\ playbackState = "playing"
    /\ canUndoOf(history)
    /\ ~lastOp.hit

\* C18: every marker in the store has 0 <= time <= duration of the loaded
\* audio, across edits, undo, redo and the loading of another file.
C18_MarkersWithinDuration ==
    \A i \in DOMAIN history.present :
        /\ 0 <= history.present[i].time
        /\ history.present[i].time <= audioDuration

\* C20: a decode failure or an export failure leaves present, past and
\* future unchanged, clears the busy indicator of the failed handler, and
\* the editor that was shown is still shown.
C20_FailuresKeepEditor ==
    [][(ops' = ops + 1 /\ lastOp'.op \in {"decodeError", "exportError"}) =>
          /\ history' = history
          /\ ~isLoading'
          /\ exportingSectionId' = <<>>
          /\ ~isExporting'
          /\ waveformData => waveformData']_vars

----------------------------------------------------------------------------
(* Undo and redo around one historied operation of the store *)

UndoableOps == {"addMarker", "updateMarker", "updateMarkerName",
                "updateMarkerEnabled", "deleteMarker"}

\* C19: when addMarker, updateMarker, updateMarkerName, updateMarkerEnabled
\* or deleteMarker is applied to a marker list S, an undo() right after it
\* gives back S and a redo() after that gives back the operation's result.
C19_UndoRevertsLastAction ==
    [][(ops' = ops + 1 /\ lastOp'.op \in UndoableOps) =>
          /\ canUndoOf(history')
          /\ undo(history').present = history.present
          /\ canRedoOf(undo(history'))
          /\ redo(undo(history')).present = history'.present]_vars

\* an operation changed a list with two entries behind it, was undone and
\* redone
C19_Witness ==
    /\ lastOp.op = "redo"
    /\ lastOp.hit
    /\ lastOp.afterUndo
    /\ Len(history.past) = 2
    /\ history.past[2] # history.present
    /\ history.past[1] # history.past[2]

----------------------------------------------------------------------------
(* The keyboard numbers of MarkerControlStrip against the key handler, on  *)
(* long section lists                                                      *)

\* length of the section lists of a densely marked file
MaxManySections == 38

\* the place of the one disabled section of a list, 0 for none
DisabledPlaces == {0, 1, 10, 37}

\* sections in start-time order, all enabled but at most one
ManySectionLists ==
    {[i \in 1..n |-> KeySection(i, i, i # d)] :
        n \in 0..MaxManySections, d \in DisabledPlaces}

LabelKeys == {KEY_ORDER[i] : i \in DOMAIN KEY_ORDER} \cup {"Q", "-"}

LabelsInit ==
    /\ StoreInit
    /\ markersIn = <<>>
    /\ sections \in ManySectionLists
    /\ played = NoCall
    /\ keyEvent = ""
    /\ AppIdle

LabelsNext == \E key \in LabelKeys : HandleKeyDown(key)

SpecLabels == LabelsInit /\ [][LabelsNext]_vars

\* {keyboardIndex} as rendered text
Digits == <<"1", "2", "3", "4", "5", "6", "7", "8", "9">>

\* the text MarkerControlStrip shows on section i, "" for none
LabelText(i) == IF LabelOf(i) = 0 THEN "" ELSE Digits[LabelOf(i)]

\* C13: a section shows label L exactly when pressing L plays it, and a
\* section without a label is played by no key.
C13_LabelMatchesTrigger ==
    keyEvent # "" =>
        \A i \in DOMAIN sections :
            (LabelText(i) = ToLowerCase(keyEvent))
                <=> (played.called /\ played.sectionId = sections[i].id)

\* what each symbol of the alphabet resolves to
ResolvedByKey == [k \in DOMAIN KEY_ORDER |-> ResolveKey(sections, KEY_ORDER[k])]

\* the symbol table of a section list: distinct symbols play distinct
\* sections, min(enabled, 36) symbols play anything, symbol k plays the
\* section getKeyForIndex gives k to, and nothing reaches position 36 on
MappingInjectiveBounded ==
    LET resolved == ResolvedByKey
        mapped == {k \in DOMAIN KEY_ORDER : resolved[k].called}
    IN /\ \A k1, k2 \in mapped :
             k1 # k2 => resolved[k1].sectionId # resolved[k2].sectionId
       /\ Cardinality(mapped) = Min(EnabledCount, 36)
       /\ \A k \in mapped :
             getKeyForIndex(EnabledBefore(PositionOfSection(resolved[k].sectionId)))
                 = KEY_ORDER[k]
       /\ \A i \in DOMAIN sections :
             (sections[i].enabled /\ EnabledBefore(i) >= 36) =>
                 /\ getKeyForIndex(EnabledBefore(i)) = ""
                 /\ \A k \in DOMAIN KEY_ORDER : resolved[k].sectionId # sections[i].id

\* C14: for any number of enabled sections, distinct symbols play distinct
\* sections, at most 36 symbols play anything, and an enabled section at
\* position 36 or later in start-time order has no symbol and is played by
\* no key. The table is examined for every section list the handler is
\* given, the played section after every key press.
C14_MappingInjectiveBounded ==
    /\ IsSortedByStart
    /\ keyEvent = "" => MappingInjectiveBounded
    /\ played.called =>
          LET i == PositionOfSection(played.sectionId)
          IN /\ sections[i].enabled
             /\ EnabledBefore(i) < 36
             /\ getKeyForIndex(EnabledBefore(i)) = ToLowerCase(keyEvent)

\* 38 enabled sections, the last key of the alphabet pressed: it plays the
\* 36th section and nothing reaches the 37th and 38th
C14_Witness ==
    /\ Len(sections) = 38
    /\ EnabledCount = 38
    /\ keyEvent = "m"
    /\ played.called
    /\ played.sectionId = 36

----------------------------------------------------------------------------
(* hooks/useZoom. Times, zoom levels and offsets are exact fractions        *)
(* <<numerator, denominator>> in lowest terms with a positive denominator. *)

Abs(x) == IF x < 0 THEN -x ELSE x

RECURSIVE GCD(_, _)
GCD(a, b) == IF b = 0 THEN a ELSE GCD(b, a % b)

Rat(n, d) ==
    LET sn == IF d < 0 THEN -n ELSE n
        sd == Abs(d)
        g == GCD(Abs(n), sd)
    IN <<sn \div g, sd \div g>>

FromInt(n) == <<n, 1>>
RAdd(a, b) == Rat(a[1] * b[2] + b[1] * a[2], a[2] * b[2])
RSub(a, b) == Rat(a[1] * b[2] - b[1] * a[2], a[2] * b[2])
RMul(a, b) == Rat(a[1] * b[1], a[2] * b[2])
RDiv(a, b) == Rat(a[1] * b[2], a[2] * b[1])
RLe(a, b) == a[1] * b[2] <= b[1] * a[2]
RMin(a, b) == IF RLe(a, b) THEN a ELSE b
RMax(a, b) == IF RLe(a, b) THEN b ELSE a

\* number of useZoom operations in one explored run
ZoomMaxOps == 4

\* App: useZoom({duration: audioDuration, minZoom: 1, maxZoom: 100, ...})
minZoom == <<1, 1>>
maxZoom == <<100, 1>>
\* the zoomStep option: App's 1.2 and a doubling step
ZoomSteps == {<<6, 5>>, <<2, 1>>}
\* durations of the files the hook is given
ZoomDurations == {30, 100}
\* arguments handed to zoomAtPoint, setPan and setZoomLevel
ZoomTimes == {FromInt(0), FromInt(50), FromInt(130)}
PanOffsets == {FromInt(-10), FromInt(25), FromInt(1000)}
ZoomLevels == {<<1, 2>>, FromInt(3), FromInt(200)}

\* a plausible slip: only the lower bound is enforced
clampZoom_noUpper(level) == RMax(minZoom, level)

clampZoom(level) == RMax(minZoom, RMin(maxZoom, level))

getVisibleDuration(zoom, duration) == RDiv(FromInt(duration), zoom)

\* a plausible slip: the offset is only kept from going negative
clampPan_noUpper(offset, zoom, duration) == RMax(FromInt(0), offset)

clampPan(offset, zoom, duration) ==
    LET visibleDuration == getVisibleDuration(zoom, duration)
        maxPan == RMax(FromInt(0), RSub(FromInt(duration), visibleDuration))
    IN RMax(FromInt(0), RMin(maxPan, offset))

visibleRange(pan, zoom, duration) ==
    LET visibleDuration == getVisibleDuration(zoom, duration)
        start == pan
        end == RMin(RAdd(pan, visibleDuration), FromInt(duration))
    IN [start |-> start, end |-> end, duration |-> RSub(end, start)]

\* the zoom state an operation leaves, with the pan it computed before
\* clamping
ZoomResult(zoom, newPan, duration) ==
    [zoomLevel |-> zoom, panOffset |-> clampPan(newPan, zoom, duration),
     newPan |-> newPan]

\* zoomIn / zoomOut: keep the centre of the view
zoomAroundCentre(newZoom, zoom, pan, duration) ==
    LET oldVisibleDuration == getVisibleDuration(zoom, duration)
        newVisibleDuration == getVisibleDuration(newZoom, duration)
        centerTime == RAdd(pan, RDiv(oldVisibleDuration, FromInt(2)))
        newPan == RSub(centerTime, RDiv(newVisibleDuration, FromInt(2)))
    IN ZoomResult(newZoom, newPan, duration)

zoomIn(zoom, pan, duration, step) ==
    zoomAroundCentre(clampZoom(RMul(zoom, step)), zoom, pan, duration)

zoomOut(zoom, pan, duration, step) ==
    zoomAroundCentre(clampZoom(RDiv(zoom, step)), zoom, pan, duration)

\* a plausible slip: the view is re-centred instead of anchored at the cursor
zoomAtPoint_centre(zoom, pan, duration, step, time, direction) ==
    IF direction = "in" THEN zoomIn(zoom, pan, duration, step)
    ELSE zoomOut(zoom, pan, duration, step)

zoomAtPoint(zoom, pan, duration, step, time, direction) ==
    LET newZoom == IF direction = "in" THEN clampZoom(RMul(zoom, step))
                   ELSE clampZoom(RDiv(zoom, step))
        oldVisibleDuration == getVisibleDuration(zoom, duration)
        newVisibleDuration == getVisibleDuration(newZoom, duration)
        relativePosition == RDiv(RSub(time, pan), oldVisibleDuration)
        newPan == RSub(time, RMul(relativePosition, newVisibleDuration))
    IN ZoomResult(newZoom, newPan, duration)

setPan(zoom, pan, duration, offset) == ZoomResult(zoom, offset, duration)

setZoomLevel(zoom, pan, duration, level) ==
    ZoomResult(clampZoom(level), pan, duration)

resetZoom(zoom, pan, duration) == ZoomResult(minZoom, FromInt(0), duration)

\* the hook mounted with a decoded file's duration
ZoomInit ==
    /\ StoreInit
    /\ PureIdle
    /\ keyMods = NoMods
    /\ audioDuration \in ZoomDurations
    /\ audioBuffer = 1
    /\ waveformData = TRUE
    /\ isLoading = FALSE
    /\ pending = NoPending
    /\ exportingSectionId = <<>>
    /\ isExporting = FALSE
    /\ exportProgress = NoProgress
    /\ playbackState = "idle"
    /\ playbackRefs = NoRefs
    /\ PlaybackIdle
    /\ zoomStep \in ZoomSteps
    /\ zoomLevel = minZoom
    /\ panOffset = FromInt(0)
    /\ lastZoom = NoZoom
    /\ GestureIdle

ZoomFrame(op, time, result) ==
    /\ ops < ZoomMaxOps
    /\ ops' = ops + 1
    /\ zoomLevel' = result.zoomLevel
    /\ panOffset' = result.panOffset
    /\ lastZoom' = [op |-> op, time |-> time, oldPan |-> panOffset,
                    oldZoom |-> zoomLevel, newPan |-> result.newPan]
    /\ UNCHANGED <<history, selectedMarkerId, nextId, lastOp, drag, afterReset,
                   pureVars, keyMods, audioBuffer, waveformData, isLoading,
                   pending, exportVars, playVars, zoomStep, gestureVars>>

ZoomIn ==
    /\ ZoomFrame("zoomIn", FromInt(0),
                 zoomIn(zoomLevel, panOffset, audioDuration, zoomStep))
    /\ UNCHANGED audioDuration

ZoomOut ==
    /\ ZoomFrame("zoomOut", FromInt(0),
                 zoomOut(zoomLevel, panOffset, audioDuration, zoomStep))
    /\ UNCHANGED audioDuration

ZoomAtPoint(time, direction) ==
    /\ ZoomFrame(direction, time,
                 zoomAtPoint(zoomLevel, panOffset, audioDuration, zoomStep,
                             time, direction))
    /\ UNCHANGED audioDuration

SetPan(offset) ==
    /\ ZoomFrame("setPan", offset,
                 setPan(zoomLevel, panOffset, audioDuration, offset))
    /\ UNCHANGED audioDuration

SetZoomLevel(level) ==
    /\ ZoomFrame("setZoomLevel", level,
                 setZoomLevel(zoomLevel, panOffset, audioDuration, level))
    /\ UNCHANGED audioDuration

ZoomReset ==
    /\ ZoomFrame("reset", FromInt(0),
                 resetZoom(zoomLevel, panOffset, audioDuration))
    /\ UNCHANGED audioDuration

\* App.handleFileLoaded: setAudioDuration(metadata.duration); resetZoom()
ZoomNewFile(duration) ==
    /\ audioDuration' = duration
    /\ ZoomFrame("newFile", FromInt(0), resetZoom(zoomLevel, panOffset, duration))

ZoomNext ==
    \/ ZoomIn
    \/ ZoomOut
    \/ \E time \in ZoomTimes, direction \in {"in", "out"} : ZoomAtPoint(time, direction)
    \/ \E offset \in PanOffsets : SetPan(offset)
    \/ \E level \in ZoomLevels : SetZoomLevel(level)
    \/ ZoomReset
    \/ \E duration \in ZoomDurations : ZoomNewFile(duration)

SpecZoom == ZoomInit /\ [][ZoomNext]_vars

C31_ZoomWithinBounds ==
    /\ RLe(minZoom, zoomLevel)
    /\ RLe(zoomLevel, maxZoom)
    /\ lastZoom.op = "reset" => (zoomLevel = minZoom /\ panOffset = FromInt(0))

\* setZoomLevel was handed a level beyond maxZoom and a further zoomIn, from
\* a view that is not at the start of the file, stayed at maxZoom
C31_Witness ==
    /\ lastZoom.op = "zoomIn"
    /\ lastZoom.oldZoom = maxZoom
    /\ zoomLevel = maxZoom
    /\ panOffset # FromInt(0)

----------------------------------------------------------------------------
(* Frame and algebraic properties of the store and its engine *)

\* C22: updateMarkerSilent changes only the present marker list: past and
\* future, and with them canUndo and canRedo, are the same before and after
\* every call.
C22_SilentKeepsHistory ==
    [][(ops' = ops + 1 /\ lastOp'.op = "updateMarkerSilent") =>
          /\ history'.past = history.past
          /\ history'.future = history.future
          /\ canUndoOf(history') = canUndoOf(history)
          /\ canRedoOf(history') = canRedoOf(history)
          /\ (lastOp'.hit =>
                history'.present =
                    sortMarkersByTime(MapTime(history.present, lastOp'.id,
                                              TimeOf(history'.present, lastOp'.id))))]_vars

\* a silent update of an existing marker happened while both past and
\* future held snapshots
C22_Witness ==
    /\ lastOp.op = "updateMarkerSilent"
    /\ lastOp.hit
    /\ Len(history.past) > 0
    /\ Len(history.future) > 0

\* C25: undo() with an empty past and redo() with an empty future leave
\* past, present and future as they were, and canUndo / canRedo say exactly
\* whether past / future hold an entry.
C25_EmptyUndoRedoNoOp ==
    [][/\ (ops' = ops + 1 /\ lastOp'.op = "undo" /\ Len(history.past) = 0) =>
             history' = history
       /\ (ops' = ops + 1 /\ lastOp'.op = "redo" /\ Len(history.future) = 0) =>
             history' = history
       /\ canUndoOf(history') <=> (Len(history'.past) > 0)
       /\ canRedoOf(history') <=> (Len(history'.future) > 0)]_vars

\* undo() was called on an empty past while future held a snapshot
C25_Witness ==
    /\ lastOp.op = "undo"
    /\ ~lastOp.hit
    /\ Len(history.past) = 0
    /\ Len(history.future) > 0

\* C26: wherever canUndo holds, undo() followed by redo() gives back the same
\* past, present and future; wherever canRedo holds, redo() followed by
\* undo() does.
C26_UndoRedoInverse ==
    /\ canUndoOf(history) => redo(undo(history)) = history
    /\ canRedoOf(history) => undo(redo(history)) = history

\* a snapshot waits in future and one in past: both round trips apply
C26_Witness ==
    /\ lastOp.op = "undo"
    /\ lastOp.hit
    /\ Len(history.future) = 1
    /\ Len(history.past) = 1
    /\ history.future[1] # history.present

\* C28: addMarker(t) on n markers yields n+1 markers, one of them new with
\* time t, name "Section n+1" and enabled, selects the new marker, and
\* pushes exactly one history entry.
C28_AddMarker ==
    [][(ops' = ops + 1 /\ lastOp'.op = "addMarker") =>
          /\ Len(history'.present) = Len(history.present) + 1
          /\ HasId(history'.present, lastOp'.id)
          /\ ~HasId(history.present, lastOp'.id)
          /\ LET m == history'.present[IndexOfId(history'.present, lastOp'.id)]
             IN /\ m.name = SectionName(Len(history.present) + 1)
                /\ m.enabled
                /\ m.time \in Times
          /\ undo(history').present = history.present
          /\ history'.future = <<>>
          /\ selectedMarkerId' = lastOp'.id]_vars

\* C29: deleteMarker(id) removes the marker with that id and no other,
\* keeps the rest as they were, clears the selection exactly when the
\* deleted marker was the selected one, and one undo() brings the list back.
C29_DeleteMarker ==
    [][(ops' = ops + 1 /\ lastOp'.op = "deleteMarker") =>
          /\ ~HasId(history'.present, lastOp'.id)
          /\ Len(history'.present) =
                Len(history.present) - (IF HasId(history.present, lastOp'.id) THEN 1 ELSE 0)
          /\ \A i \in DOMAIN history.present :
                history.present[i].id # lastOp'.id =>
                    \E j \in DOMAIN history'.present :
                        /\ history'.present[j] = history.present[i]
                        /\ j = i - (IF /\ HasId(history.present, lastOp'.id)
                                        /\ IndexOfId(history.present, lastOp'.id) < i
                                     THEN 1 ELSE 0)
          /\ selectedMarkerId' = (IF selectedMarkerId = lastOp'.id
                                  THEN NoId ELSE selectedMarkerId)
          /\ undo(history').present = history.present]_vars

\* the selected one of two markers was deleted
C29_Witness ==
    /\ lastOp.op = "deleteMarker"
    /\ lastOp.hit
    /\ Len(history.present) = 1
    /\ selectedMarkerId = NoId
    /\ Len(history.past) > 0

----------------------------------------------------------------------------
(* The engine over numbers with direct values and updater functions:       *)
(* useUndoRedo<number>(0, maxHistory), where === compares the values       *)

\* number of engine calls in one explored run
EngineMaxOps == 6

\* the values handed to setState directly
EngineValues == {0, 1, 2}

\* the updater functions handed to setState
EngineUpdaters == {"same", "next"}

\* (newState as (prev: T) => T)(prev.present)
ApplyUpdater(f, present) ==
    IF f = "same" THEN present ELSE (present + 1) % 3

EngineInit ==
    /\ history = InitialHistory(0)
    /\ selectedMarkerId = NoId
    /\ nextId = 1
    /\ ops = 0
    /\ lastOp = NoOp
    /\ drag = NoDrag
    /\ afterReset = FALSE
    /\ PureIdle
    /\ AppIdle

EngineFrame(op, value, hit) ==
    /\ ops' = ops + 1
    /\ lastOp' = Note(op, value, hit)
    /\ UNCHANGED <<selectedMarkerId, nextId, drag, afterReset>>
    /\ UNCHANGED <<pureVars, appVars>>

\* setState(value)
EngineSetState(value) ==
    /\ history' = setState(history, value, value = history.present, maxHistory)
    /\ EngineFrame("setState", value, value # history.present)

\* setState(prev => ...)
EngineSetStateWith(f) ==
    /\ LET resolvedState == ApplyUpdater(f, history.present)
       IN /\ history' = setState(history, resolvedState,
                                 resolvedState = history.present, maxHistory)
          /\ EngineFrame("setState", resolvedState,
                         resolvedState # history.present)

EngineUndo ==
    /\ history' = undo(history)
    /\ EngineFrame("undo", history'.present, canUndoOf(history))

EngineRedo ==
    /\ history' = redo(history)
    /\ EngineFrame("redo", history'.present, canRedoOf(history))

EngineNext ==
    \/ More(EngineMaxOps) /\ \E value \in EngineValues : EngineSetState(value)
    \/ More(EngineMaxOps) /\ \E f \in EngineUpdaters : EngineSetStateWith(f)
    \/ More(EngineMaxOps) /\ EngineUndo
    \/ More(EngineMaxOps) /\ EngineRedo

SpecEngine == EngineInit /\ [][EngineNext]_vars

\* C27: a setState whose computed next value is the present value changes
\* nothing: past gets no entry and future is not cleared.
C27_SameValueNoOp ==
    [][(ops' = ops + 1 /\ lastOp'.op = "setState" /\ lastOp'.id = history.present) =>
          /\ history'.past = history.past
          /\ history'.future = history.future
          /\ history'.present = history.present]_vars

\* setState computed the present value while past and future held entries
C27_Witness ==
    /\ lastOp.op = "setState"
    /\ ~lastOp.hit
    /\ lastOp.id = history.present
    /\ Len(history.past) > 0
    /\ Len(history.future) > 0

----------------------------------------------------------------------------
(* utils/sections on marker lists with any names and enabled flags         *)

\* length of the marker lists sections are derived from
DeriveMaxLen == 3

DeriveTimes == {0, 1}

DeriveMarkers ==
    {Marker(id, time, name, enabled) :
        id \in 1..DeriveMaxLen, time \in DeriveTimes,
        name \in {SectionName(1)} \cup CustomNames, enabled \in BOOLEAN}

DeriveLists ==
    UNION {{l \in [1..n -> DeriveMarkers] :
               \A i, j \in 1..n : i # j => l[i].id # l[j].id} : n \in 0..DeriveMaxLen}

DeriveInit ==
    /\ StoreInit
    /\ markersIn \in DeriveLists
    /\ sections = <<>>
    /\ played = NoCall
    /\ keyEvent = ""
    /\ AppIdle

\* getSections(markers)
DeriveAnySections ==
    /\ lastOp.op = "init"
    /\ sections' = getSections(markersIn)
    /\ lastOp' = Note("getSections", NoId, TRUE)
    /\ UNCHANGED <<history, selectedMarkerId, nextId, ops, drag, afterReset>>
    /\ UNCHANGED <<markersIn, played, keyEvent, appVars>>

DeriveNext == DeriveAnySections

SpecDerive == DeriveInit /\ [][DeriveNext]_vars

\* the marker of the input list with this id
InputMarker(id) == markersIn[IndexOfId(markersIn, id)]

\* C30: every derived section has startTime = startMarker.time, endTime =
\* endMarker.time, name = startMarker.name and enabled = startMarker.enabled,
\* its two markers being markers of the list it was derived from.
C30_SectionFields ==
    lastOp.op = "getSections" =>
        \A i \in DOMAIN sections :
            /\ HasId(markersIn, sections[i].startMarker.id)
            /\ HasId(markersIn, sections[i].endMarker.id)
            /\ sections[i].startMarker = InputMarker(sections[i].startMarker.id)
            /\ sections[i].endMarker = InputMarker(sections[i].endMarker.id)
            /\ sections[i].startMarker.time <= sections[i].endMarker.time
            /\ sections[i].startTime = InputMarker(sections[i].startMarker.id).time
            /\ sections[i].endTime = InputMarker(sections[i].endMarker.id).time
            /\ sections[i].name = InputMarker(sections[i].startMarker.id).name
            /\ "enabled" \in DOMAIN sections[i]
            /\ sections[i].enabled = InputMarker(sections[i].startMarker.id).enabled

----------------------------------------------------------------------------
(* A drag gesture on the store, interleaved with the keyboard: pointer-down *)
(* remembers the marker's time, every pointer-move is an updateMarkerSilent, *)
(* pointer-up is one updateMarkerAtomic; the window's keydown listeners stay *)
(* live while the button is held.                                           *)

\* number of events in one explored run of the gesture
DragMaxOps == 6
\* number of markers ever created in one explored run of the gesture
DragMaxMarkers == 2

\* times under the pointer
DragTimes == {0, 1, 2}

DragFrame(op, id, hit) ==
    /\ ops' = ops + 1
    /\ lastOp' = Note(op, id, hit)
    /\ drag' = NoDrag
    /\ afterReset' = FALSE
    /\ UNCHANGED <<pureVars, keyMods, fileVars, exportVars, playVars, zoomVars,
                   pointer>>

\* the times a marker has been committed at, none for an id never seen
CommittedAt(id) == IF id \in DOMAIN committed THEN committed[id] ELSE {}

Commit(id, time) ==
    [i \in (DOMAIN committed) \cup {id} |->
        IF i = id THEN CommittedAt(i) \cup {time} ELSE CommittedAt(i)]

\* a click on the empty track while no button is held: addMarker(time)
DragAddMarker(time, updaterRan) ==
    /\ gesture = NoGesture
    /\ nextId <= DragMaxMarkers
    /\ history' = addMarker(history, nextId, time)
    /\ selectedMarkerId' = IF updaterRan THEN nextId ELSE selectedMarkerId
    /\ nextId' = nextId + 1
    /\ committed' = Commit(nextId, time)
    /\ UNCHANGED gesture
    /\ DragFrame("addMarker", nextId, TRUE)

\* pointer-down on a marker: the pre-drag time is captured
DragStart(id) ==
    /\ gesture = NoGesture
    /\ HasId(history.present, id)
    /\ gesture' = [id |-> id, preDragTime |-> TimeOf(history.present, id),
                   moved |-> FALSE, lastTime |-> TimeOf(history.present, id)]
    /\ selectedMarkerId' = id
    /\ UNCHANGED <<history, nextId, committed>>
    /\ DragFrame("dragStart", id, TRUE)

\* pointer-move: updateMarkerSilent(id, time)
DragMove(time) ==
    /\ gesture # NoGesture
    /\ history' = updateMarkerSilent(history, gesture.id, time)
    /\ gesture' = [gesture EXCEPT !.moved = TRUE, !.lastTime = time]
    /\ UNCHANGED <<selectedMarkerId, nextId, committed>>
    /\ DragFrame("updateMarkerSilent", gesture.id, HasId(history.present, gesture.id))

\* pointer-up after movement: updateMarkerAtomic(id, preDragTime, finalTime)
DragEnd ==
    /\ gesture # NoGesture
    /\ gesture.moved
    /\ history' = updateMarkerAtomic(history, gesture.id,
                                     gesture.preDragTime, gesture.lastTime)
    /\ committed' = Commit(gesture.id, gesture.lastTime)
    /\ gesture' = NoGesture
    /\ UNCHANGED <<selectedMarkerId, nextId>>
    /\ DragFrame("updateMarkerAtomic", gesture.id, HasId(history.present, gesture.id))

\* Ctrl/Cmd+Z: if (canUndo) undo()
DragKeyUndo ==
    /\ canUndoOf(history)
    /\ history' = undo(history)
    /\ UNCHANGED <<selectedMarkerId, nextId, committed, gesture>>
    /\ DragFrame("undo", NoId, TRUE)

\* Ctrl/Cmd+Shift+Z: if (canRedo) redo()
DragKeyRedo ==
    /\ canRedoOf(history)
    /\ history' = redo(history)
    /\ UNCHANGED <<selectedMarkerId, nextId, committed, gesture>>
    /\ DragFrame("redo", NoId, TRUE)

\* Delete / Backspace: onDeleteMarker(selectedMarkerId)
DragKeyDelete ==
    /\ selectedMarkerId # NoId
    /\ history' = deleteMarker(history, selectedMarkerId)
    /\ selectedMarkerId' = NoId
    /\ UNCHANGED <<nextId, committed, gesture>>
    /\ DragFrame("deleteMarker", selectedMarkerId, HasId(history.present, selectedMarkerId))

DragNext ==
    \/ More(DragMaxOps) /\ \E time \in DragTimes, updaterRan \in BOOLEAN : DragAddMarker(time, updaterRan)
    \/ More(DragMaxOps) /\ \E id \in 1..DragMaxMarkers : DragStart(id)
    \/ More(DragMaxOps) /\ \E time \in DragTimes : DragMove(time)
    \/ More(DragMaxOps) /\ DragEnd
    \/ More(DragMaxOps) /\ DragKeyUndo
    \/ More(DragMaxOps) /\ DragKeyRedo
    \/ More(DragMaxOps) /\ DragKeyDelete

SpecDrag == AppInit /\ [][DragNext]_vars

Snapshots == {history.past[i] : i \in DOMAIN history.past}
                \cup {history.future[i] : i \in DOMAIN history.future}

\* C21: whatever the interleaving of a drag's pointer-moves with keyboard
\* undo, redo and historied edits, every snapshot in past and future holds
\* each marker at a committed position: the time it was added at, or a time
\* a drag was released at.
C21_NoIntermediateInHistory ==
    \A snapshot \in Snapshots :
        \A k \in DOMAIN snapshot :
            snapshot[k].time \in CommittedAt(snapshot[k].id)

----------------------------------------------------------------------------
(* WaveformCanvas: the pointer handlers, wired as App wires them            *)
(* (onUpdateMarker = updateMarker, onAddMarker = addMarker, onPan = setPan, *)
(* onSelectMarker = setSelectedMarkerId), on a loaded 120 s file            *)

\* number of pointer events in one explored run of the canvas
CanvasMaxOps == 7
\* number of markers ever created in one explored run of the canvas
CanvasMaxMarkers == 2

\* program constants of WaveformCanvas
MARKER_HIT_THRESHOLD == 10
CLICK_THRESHOLD == 5

\* rect.width of the container; rect.left is 0
CanvasWidth == 240
\* event.clientX of the pointer events; all divide evenly into seconds
PointerXs == {20, 24, 40, 80}

\* pixelToTime: rangeStart + (relativeX / rect.width) * rangeDuration
pixelToTime(pixelX, rangeStart, rangeEnd) ==
    rangeStart + (pixelX * (rangeEnd - rangeStart)) \div CanvasWidth

\* pixelDistanceToTime: (pixelDistance / rect.width) * rangeDuration
pixelDistanceToTime(pixelDistance, rangeStart, rangeEnd) ==
    IF pixelDistance >= 0
    THEN (pixelDistance * (rangeEnd - rangeStart)) \div CanvasWidth
    ELSE 0 - (((0 - pixelDistance) * (rangeEnd - rangeStart)) \div CanvasWidth)

\* timeToPixel: rect.left + ((time - rangeStart) / rangeDuration) * rect.width
timeToPixel(time, rangeStart, rangeEnd) ==
    ((time - rangeStart) * CanvasWidth) \div (rangeEnd - rangeStart)

\* findMarkerAtPixel: the loop keeps the first marker strictly nearer than
\* everything before it, starting from the hit threshold
nearestMarkerAtPixel(markers, pixelX, rangeStart, rangeEnd) ==
    LET Distance(i) == Abs(pixelX - timeToPixel(markers[i].time, rangeStart, rangeEnd))
        Hits == {i \in DOMAIN markers : Distance(i) < MARKER_HIT_THRESHOLD}
    IN IF Hits = {} THEN NoId
       ELSE markers[CHOOSE i \in Hits :
                       \A j \in Hits : \/ Distance(i) < Distance(j)
                                       \/ (Distance(i) = Distance(j) /\ i <= j)].id

\* the canvas is shown for file 1, unzoomed: the visible range is the file
CanvasInit ==
    /\ StoreInit
    /\ PureIdle
    /\ keyMods = NoMods
    /\ audioDuration = FileDurations[1]
    /\ audioBuffer = 1
    /\ waveformData = TRUE
    /\ isLoading = FALSE
    /\ pending = NoPending
    /\ exportingSectionId = <<>>
    /\ isExporting = FALSE
    /\ exportProgress = NoProgress
    /\ playbackState = "idle"
    /\ playbackRefs = NoRefs
    /\ PlaybackIdle
    /\ zoomStep = <<6, 5>>
    /\ zoomLevel = minZoom
    /\ panOffset = FromInt(0)
    /\ lastZoom = NoZoom
    /\ GestureIdle

CanvasFrame(op, id, hit) ==
    /\ ops' = ops + 1
    /\ lastOp' = Note(op, id, hit)
    /\ drag' = NoDrag
    /\ afterReset' = FALSE
    /\ markersIn' = markersIn
    /\ sections' = AppSections(history'.present)
    /\ NoKey
    /\ UNCHANGED <<fileVars, exportVars, playVars, zoomStep, zoomLevel, lastZoom,
                   gesture, committed>>

\* handleMouseDown
CanvasMouseDown(x) ==
    /\ ~pointer.buttonDown
    /\ LET clickedMarkerId == nearestMarkerAtPixel(history.present, x, 0, audioDuration)
       IN IF clickedMarkerId # NoId /\ clickedMarkerId = selectedMarkerId
          THEN pointer' = [pointer EXCEPT
                              !.buttonDown = TRUE, !.lastX = x,
                              !.isDraggingMarkerRef = TRUE,
                              !.draggingMarkerIdRef = clickedMarkerId,
                              !.hasDraggedRef = FALSE,
                              !.dragStartXRef = x,
                              !.phase = "down", !.downMarker = clickedMarkerId,
                              !.dragged = TRUE, !.downHistory = history,
                              !.upX = 0, !.moves = 0]
          ELSE pointer' = [pointer EXCEPT
                              !.buttonDown = TRUE, !.lastX = x,
                              !.isDraggingRef = TRUE,
                              !.dragStartXRef = x,
                              !.dragStartPanRef = panOffset,
                              !.hasDraggedRef = FALSE,
                              !.phase = "down", !.downMarker = clickedMarkerId,
                              !.dragged = FALSE, !.downHistory = history,
                              !.upX = 0, !.moves = 0]
    /\ UNCHANGED <<history, selectedMarkerId, nextId, panOffset>>
    /\ CanvasFrame("mouseDown", NoId, TRUE)

\* handleMouseMove, while one of the two drag refs is set
CanvasMouseMove(x) ==
    /\ pointer.isDraggingMarkerRef \/ pointer.isDraggingRef
    /\ IF pointer.isDraggingMarkerRef /\ pointer.draggingMarkerIdRef # NoId
       THEN LET deltaX == x - pointer.dragStartXRef
                hasDragged == pointer.hasDraggedRef \/ Abs(deltaX) > CLICK_THRESHOLD
                clampedTime == ClampTime(pixelToTime(x, 0, audioDuration), audioDuration)
            IN /\ pointer' = [pointer EXCEPT !.hasDraggedRef = hasDragged,
                                             !.lastX = x, !.moves = @ + 1]
               /\ history' = IF hasDragged
                             THEN updateMarker(history, pointer.draggingMarkerIdRef,
                                               clampedTime)
                             ELSE history
               /\ UNCHANGED panOffset
               /\ CanvasFrame("mouseMove", pointer.draggingMarkerIdRef, hasDragged)
       ELSE LET deltaX == pointer.dragStartXRef - x
                hasDragged == pointer.hasDraggedRef \/ Abs(deltaX) > CLICK_THRESHOLD
                newPan == RAdd(pointer.dragStartPanRef,
                               FromInt(pixelDistanceToTime(deltaX, 0, audioDuration)))
            IN /\ pointer' = [pointer EXCEPT !.hasDraggedRef = hasDragged,
                                             !.lastX = x, !.moves = @ + 1]
               /\ panOffset' = IF hasDragged
                               THEN setPan(zoomLevel, panOffset, audioDuration,
                                           newPan).panOffset
                               ELSE panOffset
               /\ UNCHANGED history
               /\ CanvasFrame("mouseMove", NoId, hasDragged)
    /\ UNCHANGED <<selectedMarkerId, nextId>>

\* the refs and observers after handleMouseUp ran to its end
Released(x) ==
    [pointer EXCEPT !.buttonDown = FALSE,
                    !.isDraggingRef = FALSE, !.isDraggingMarkerRef = FALSE,
                    !.draggingMarkerIdRef = NoId, !.hasDraggedRef = FALSE,
                    !.phase = "up", !.upX = x]

\* handleMouseUp, the button being released where the mouse is. updaterRan:
\* see AddMarker; when addMarker throws, the handler is left before it
\* resets its refs.
CanvasMouseUp(x, updaterRan) ==
    /\ pointer.buttonDown
    /\ x = pointer.lastX
    /\ IF pointer.isDraggingMarkerRef
       THEN /\ pointer' = Released(x)
            /\ UNCHANGED <<history, selectedMarkerId, nextId>>
            /\ CanvasFrame("mouseUp", NoId, FALSE)
       ELSE IF pointer.isDraggingRef /\ ~pointer.hasDraggedRef
       THEN LET clickedMarkerId ==
                    nearestMarkerAtPixel(history.present, x, 0, audioDuration)
            IN IF clickedMarkerId # NoId
               THEN /\ selectedMarkerId' = clickedMarkerId
                    /\ pointer' = Released(x)
                    /\ UNCHANGED <<history, nextId>>
                    /\ CanvasFrame("selectMarker", clickedMarkerId, TRUE)
               ELSE IF selectedMarkerId # NoId
               THEN /\ selectedMarkerId' = NoId
                    /\ pointer' = Released(x)
                    /\ UNCHANGED <<history, nextId>>
                    /\ CanvasFrame("selectMarker", NoId, TRUE)
               ELSE /\ nextId <= CanvasMaxMarkers
                    /\ history' = addMarker(history, nextId,
                           ClampTime(pixelToTime(x, 0, audioDuration), audioDuration))
                    /\ selectedMarkerId' = IF updaterRan THEN nextId ELSE NoId
                    /\ nextId' = nextId + 1
                    /\ pointer' = IF updaterRan THEN Released(x)
                                  ELSE [pointer EXCEPT !.buttonDown = FALSE,
                                                       !.phase = "up", !.upX = x]
                    /\ CanvasFrame("addMarker", nextId, TRUE)
       ELSE /\ pointer' = Released(x)
            /\ UNCHANGED <<history, selectedMarkerId, nextId>>
            /\ CanvasFrame("mouseUp", NoId, FALSE)
    /\ UNCHANGED panOffset

CanvasNext ==
    \/ More(CanvasMaxOps) /\ \E x \in PointerXs : CanvasMouseDown(x)
    \/ More(CanvasMaxOps) /\ \E x \in PointerXs : CanvasMouseMove(x)
    \/ More(CanvasMaxOps) /\ \E x \in PointerXs, updaterRan \in BOOLEAN : CanvasMouseUp(x, updaterRan)

SpecCanvas == CanvasInit /\ [][CanvasNext]_vars

\* a gesture that started on the selected marker, moved it, and was released
DragCompleted ==
    /\ pointer.phase = "up"
    /\ pointer.dragged
    /\ history # pointer.downHistory

\* C23: a complete drag of a marker, whatever the number of pointer-moves,
\* leaves exactly one more entry in past: the list as it was at pointer-down,
\* which one undo() brings back.
C23_OneEntryPerDrag ==
    DragCompleted =>
        /\ Len(history.past) =
              Min(Len(pointer.downHistory.past) + 1, maxHistory)
        /\ undo(history).present = pointer.downHistory.present

\* C24: pointer-down on a marker and pointer-up at the same place is no drag
\* commit: past, future and every marker are as they were at pointer-down.
C24_ClickIsNoDrag ==
    (/\ pointer.phase = "up"
     /\ pointer.downMarker # NoId
     /\ pointer.upX = pointer.dragStartXRef) =>
        /\ history.past = pointer.downHistory.past
        /\ history.future = pointer.downHistory.future
        /\ history.present = pointer.downHistory.present

----------------------------------------------------------------------------
(* usePlayback with its source nodes, animation frames and audio clock, and
   the key-pressed feedback of App *)

\* number of key presses and file changes in one explored run
PbMaxOps == 3
\* the same, in the runs explored under fairness
FairMaxOps == 2

\* the sections the keyboard handler is given: [0, 2], the zero-length
\* [2, 2] between two markers at the same time, and [2, 3]
PbSections ==
    <<[id |-> 1, startTime |-> 0, endTime |-> 2, enabled |-> TRUE],
      [id |-> 2, startTime |-> 2, endTime |-> 2, enabled |-> TRUE],
      [id |-> 3, startTime |-> 2, endTime |-> 3, enabled |-> TRUE]>>

\* section keys pressed: one per section and one without a section
PbKeys == {"1", "2", "3", "4"}

\* decoded buffers (file numbers) App hands to the hook
PbBuffers == {1, 2}

\* the hook's state and refs as one value
Machine(state, refs, au) == [state |-> state, refs |-> refs, au |-> au]

\* sourceNode.stop(): the node's ended event becomes due
StopNode(nodes, id) ==
    {IF n.id = id THEN [n EXCEPT !.stopped = TRUE] ELSE n : n \in nodes}

\* the handle requestAnimationFrame returns: none of the live ones
FreshFrame(au) ==
    CHOOSE i \in 1..(Cardinality(au.frames) + 2) :
        /\ i # au.animationFrameRef
        /\ \A f \in au.frames : f.id # i

cleanupSourceNode(m) ==
    IF m.au.sourceNodeRef # 0
    THEN [m EXCEPT !.au.nodes = StopNode(m.au.nodes, m.au.sourceNodeRef),
                   !.au.sourceNodeRef = 0]
    ELSE m

\* the refs are cleared at once; the faded node is stopped by the timeout,
\* after which its ended event is due
fadeOutCurrentPlayback(m) ==
    IF ~m.au.audioContextRef \/ m.au.sourceNodeRef = 0 \/ ~m.au.gainNodeRef
    THEN m
    ELSE [m EXCEPT !.au.nodes = StopNode(m.au.nodes, m.au.sourceNodeRef),
                   !.au.sourceNodeRef = 0,
                   !.au.gainNodeRef = FALSE]

\* a plausible slip: the frame is cancelled but the flag is left set
cancelTimeUpdate_keepFlag(m) ==
    IF m.au.animationFrameRef # 0
    THEN [m EXCEPT !.au.frames = {f \in m.au.frames : f.id # m.au.animationFrameRef},
                   !.au.animationFrameRef = 0]
    ELSE m

cancelTimeUpdate(m) ==
    LET cancelled ==
            IF m.au.animationFrameRef # 0
            THEN [m EXCEPT !.au.frames = {f \in m.au.frames : f.id # m.au.animationFrameRef},
                           !.au.animationFrameRef = 0]
            ELSE m
    IN [cancelled EXCEPT !.au.isPlayingRef = FALSE]

\* requestAnimationFrame(tickRef.current); node is the source the frame was
\* requested for
requestFrame(m) ==
    LET id == FreshFrame(m.au)
    IN [m EXCEPT !.au.animationFrameRef = id,
                 !.au.frames = m.au.frames \cup {[id |-> id, node |-> m.au.sourceNodeRef]}]

startTimeUpdate(m) ==
    requestFrame([cancelTimeUpdate(m) EXCEPT !.au.isPlayingRef = TRUE])

stopInternal(m) ==
    [cancelTimeUpdate(cleanupSourceNode(m)) EXCEPT !.refs.pausedAtRef = 0]

\* createBufferSource() ... start(0, offset, duration): the node plays out
\* at now + duration
startSource(m, duration) ==
    [m EXCEPT !.au.gainNodeRef = TRUE,
              !.au.nodes = m.au.nodes \cup {[id |-> m.au.nextNode,
                                             endsAt |-> m.au.now + duration,
                                             stopped |-> FALSE]},
              !.au.nextNode = m.au.nextNode + 1,
              !.au.playbackStartTimestampRef = m.au.now,
              !.au.sourceNodeRef = m.au.nextNode]

usePlayback_playSegment(m, buffer, startTime, endTime) ==
    IF buffer = 0 THEN m
    ELSE LET m1 == IF m.refs.audioBufferRef # buffer
                   THEN [stopInternal(m) EXCEPT !.refs.audioBufferRef = buffer,
                                                !.state = "idle",
                                                !.au.currentTime = 0]
                   ELSE m
             m2 == [m1 EXCEPT !.au.audioContextRef = TRUE]
             m3 == IF m2.au.isPlayingRef /\ m2.au.sourceNodeRef # 0
                   THEN fadeOutCurrentPlayback(m2)
                   ELSE cleanupSourceNode(m2)
             m4 == cancelTimeUpdate(m3)
             m5 == [m4 EXCEPT !.refs.segmentStartTimeRef = startTime,
                              !.refs.segmentEndTimeRef = endTime,
                              !.refs.pausedAtRef = 0]
             m6 == startSource(m5, endTime - startTime)
         IN startTimeUpdate([m6 EXCEPT !.state = "playing",
                                       !.au.currentTime = startTime,
                                       !.au.segmentStart = startTime,
                                       !.au.segmentEnd = endTime])

\* a plausible slip: the segment boundaries are left in place
usePlayback_stop_keepSegment(m) ==
    [stopInternal(m) EXCEPT !.state = "idle", !.au.currentTime = 0]

usePlayback_stop(m) ==
    [stopInternal(m) EXCEPT !.state = "idle",
                            !.au.currentTime = 0,
                            !.au.segmentStart = 0,
                            !.au.segmentEnd = 0]

usePlayback_pause(m) ==
    IF ~m.au.isPlayingRef THEN m
    ELSE IF ~m.au.audioContextRef THEN m
    ELSE LET elapsed == m.au.now - m.au.playbackStartTimestampRef
             m1 == [m EXCEPT !.refs.pausedAtRef = m.refs.segmentStartTimeRef + elapsed]
         IN [cancelTimeUpdate(cleanupSourceNode(m1)) EXCEPT !.state = "paused"]

usePlayback_resume(m, buffer) ==
    IF buffer = 0 \/ m.refs.pausedAtRef = 0 THEN m
    ELSE IF m.refs.audioBufferRef # buffer
    THEN [m EXCEPT !.refs.audioBufferRef = buffer]
    ELSE LET m1 == [m EXCEPT !.au.audioContextRef = TRUE]
             remainingDuration == m1.refs.segmentEndTimeRef - m1.refs.pausedAtRef
             m2 == startSource(m1, remainingDuration)
             m3 == [m2 EXCEPT !.refs.segmentStartTimeRef = m1.refs.pausedAtRef]
         IN startTimeUpdate([m3 EXCEPT !.state = "playing"])

\* a plausible slip: the end of the segment is tested with > instead of >=
tick_strict(m) ==
    IF ~m.au.isPlayingRef THEN m
    ELSE IF ~m.au.audioContextRef THEN m
    ELSE LET elapsed == m.au.now - m.au.playbackStartTimestampRef
             newCurrentTime == m.refs.segmentStartTimeRef + elapsed
         IN IF newCurrentTime > m.refs.segmentEndTimeRef
            THEN cleanupSourceNode([m EXCEPT !.au.currentTime = m.refs.segmentEndTimeRef,
                                             !.state = "idle",
                                             !.au.isPlayingRef = FALSE])
            ELSE requestFrame([m EXCEPT !.au.currentTime = newCurrentTime])

\* tickRef.current
tick(m) ==
    IF ~m.au.isPlayingRef THEN m
    ELSE IF ~m.au.audioContextRef THEN m
    ELSE LET elapsed == m.au.now - m.au.playbackStartTimestampRef
             newCurrentTime == m.refs.segmentStartTimeRef + elapsed
         IN IF newCurrentTime >= m.refs.segmentEndTimeRef
            THEN cleanupSourceNode([m EXCEPT !.au.currentTime = m.refs.segmentEndTimeRef,
                                             !.state = "idle",
                                             !.au.isPlayingRef = FALSE])
            ELSE requestFrame([m EXCEPT !.au.currentTime = newCurrentTime])

\* a plausible slip: the callback does not test which node it belongs to
onended_unguarded(m, sourceNode) ==
    cleanupSourceNode([m EXCEPT !.state = "idle",
                                !.au.currentTime = 0,
                                !.au.isPlayingRef = FALSE])

\* sourceNode.onended of playSegment and resume
onended(m, sourceNode) ==
    IF m.au.sourceNodeRef = sourceNode
    THEN cleanupSourceNode([m EXCEPT !.state = "idle",
                                     !.au.currentTime = 0,
                                     !.au.isPlayingRef = FALSE])
    ELSE m

\* a plausible slip: the indicator is set but no timeout is started
handleSectionKeyPressed_noTimer(fb, keyboardIndex) ==
    [fb EXCEPT !.pressedKeyboardIndex = keyboardIndex]

handleSectionKeyPressed(fb, keyboardIndex) ==
    [pressedKeyboardIndex |-> keyboardIndex, timers |-> fb.timers + 1]

\* the hook as it stands
Current == Machine(playbackState, playbackRefs, audio)

\* the editor is shown for file 1 and the three sections
PbInit ==
    /\ StoreInit
    /\ markersIn = <<>>
    /\ sections = PbSections
    /\ played = NoCall
    /\ keyEvent = ""
    /\ keyMods = NoMods
    /\ audioDuration = 4
    /\ audioBuffer = 1
    /\ waveformData = TRUE
    /\ isLoading = FALSE
    /\ pending = NoPending
    /\ exportingSectionId = <<>>
    /\ isExporting = FALSE
    /\ exportProgress = NoProgress
    /\ playbackState = "idle"
    /\ playbackRefs = NoRefs
    /\ PlaybackIdle
    /\ zoomStep = <<6, 5>>
    /\ zoomLevel = <<1, 1>>
    /\ panOffset = <<0, 1>>
    /\ lastZoom = NoZoom
    /\ GestureIdle

\* what a step leaves of the hook; node and current describe the callback
\* that ran, if one did
PbFrame(op, m, node, current) ==
    /\ playbackState' = m.state
    /\ playbackRefs' = m.refs
    /\ audio' = [m.au EXCEPT !.last = [op |-> op, node |-> node, current |-> current]]
    /\ UNCHANGED <<history, selectedMarkerId, nextId, lastOp, drag, afterReset,
                   markersIn, sections, keyMods, audioDuration, waveformData,
                   isLoading, pending, exportVars, zoomVars, gestureVars>>

\* a key press or a file change
PbUser == ops' = ops + 1

\* handleKeyDown, section-key branch: onSectionKeyPressed, then onPlaySegment
PbKeySection(key) ==
    /\ PbUser
    /\ LET call == ResolveKey(sections, key)
       IN /\ keyEvent' = key
          /\ played' = call
          /\ feedback' = IF call.called
                         THEN handleSectionKeyPressed(feedback, ToLowerCase(key))
                         ELSE feedback
          /\ PbFrame("keySection",
                     IF call.called
                     THEN usePlayback_playSegment(Current, audioBuffer,
                                                  call.startTime, call.endTime)
                     ELSE Current,
                     0, FALSE)
    /\ UNCHANGED audioBuffer

\* handleKeyDown, Escape branch
PbKeyEscape ==
    /\ PbUser
    /\ keyEvent' = "Escape"
    /\ played' = NoCall
    /\ PbFrame("keyEscape",
               IF playbackState \in {"playing", "paused"}
               THEN usePlayback_stop(Current) ELSE Current,
               0, FALSE)
    /\ UNCHANGED <<audioBuffer, feedback>>

\* handleKeyDown, Space branch
PbKeySpace ==
    /\ PbUser
    /\ keyEvent' = " "
    /\ played' = NoCall
    /\ PbFrame("keySpace",
               IF playbackState = "playing" THEN usePlayback_pause(Current)
               ELSE IF playbackState = "paused"
                    THEN usePlayback_resume(Current, audioBuffer)
                    ELSE Current,
               0, FALSE)
    /\ UNCHANGED <<audioBuffer, feedback>>

\* handleFileLoaded: setAudioBuffer(decodedBuffer); playback is not stopped
PbNewBuffer(buffer) ==
    /\ PbUser
    /\ buffer # audioBuffer
    /\ audioBuffer' = buffer
    /\ PbFrame("newBuffer", Current, 0, FALSE)
    /\ UNCHANGED <<played, keyEvent, feedback>>

\* audioContext.currentTime moves on while a started node is playing
PbAdvance ==
    /\ \E n \in audio.nodes : ~n.stopped /\ audio.now < n.endsAt
    /\ PbFrame("advance", [Current EXCEPT !.au.now = audio.now + 1], 0, FALSE)
    /\ UNCHANGED <<ops, played, keyEvent, audioBuffer, feedback>>

\* the browser runs a requested animation frame
PbTick(frame) ==
    /\ frame \in audio.frames
    /\ PbFrame("tick",
               tick([Current EXCEPT !.au.frames = audio.frames \ {frame}]),
               frame.node, frame.node # 0 /\ frame.node = audio.sourceNodeRef)
    /\ UNCHANGED <<ops, played, keyEvent, audioBuffer, feedback>>

\* the browser dispatches the ended event of a node that played out or was
\* stopped
PbSourceEnded(node) ==
    /\ node \in audio.nodes
    /\ node.stopped \/ audio.now >= node.endsAt
    /\ PbFrame("ended",
               onended([Current EXCEPT !.au.nodes = audio.nodes \ {node}], node.id),
               node.id, node.id = audio.sourceNodeRef)
    /\ UNCHANGED <<ops, played, keyEvent, audioBuffer, feedback>>

\* a timeout of handleSectionKeyPressed fires: setPressedKeyboardIndex(null)
PbTimer ==
    /\ feedback.timers > 0
    /\ feedback' = [pressedKeyboardIndex |-> "", timers |-> feedback.timers - 1]
    /\ PbFrame("timer", Current, 0, FALSE)
    /\ UNCHANGED <<ops, played, keyEvent, audioBuffer>>

PbTickAny == \E frame \in audio.frames : PbTick(frame)

\* the steps of the hook and of the feedback signal, with at most limit
\* key presses and file changes
PbSteps(limit) ==
    \/ More(limit) /\ \E key \in PbKeys : PbKeySection(key)
    \/ More(limit) /\ PbKeyEscape
    \/ More(limit) /\ PbKeySpace
    \/ More(limit) /\ \E buffer \in PbBuffers : PbNewBuffer(buffer)
    \/ PbAdvance
    \/ PbTickAny
    \/ \E node \in audio.nodes : PbSourceEnded(node)
    \/ PbTimer

PbNext == PbSteps(PbMaxOps)

SpecPlayback == PbInit /\ [][PbNext]_vars

FairNext == PbSteps(FairMaxOps)

\* the audio clock runs, requested animation frames are run and timeouts
\* fire; nothing is assumed about when an ended event is dispatched
SpecPlaybackFair ==
    /\ PbInit /\ [][FairNext]_vars
    /\ WF_vars(PbAdvance)
    /\ WF_vars(PbTickAny)
    /\ WF_vars(PbTimer)

\* the step taken is the key press or callback named op
PbStep(op) == audio'.last.op = op

\* C32: Escape pressed while the playback is playing or paused leaves the
\* state idle with the current segment (and the position) cleared and no
\* source node; Escape pressed while idle changes nothing.
C32_EscapeStops ==
    [][(PbStep("keyEscape") /\ ops' = ops + 1) =>
          IF playbackState \in {"playing", "paused"}
          THEN /\ playbackState' = "idle"
               /\ audio'.segmentStart = 0
               /\ audio'.segmentEnd = 0
               /\ audio'.currentTime = 0
               /\ audio'.sourceNodeRef = 0
               /\ ~audio'.isPlayingRef
          ELSE /\ playbackState' = playbackState
               /\ playbackRefs' = playbackRefs
               /\ [audio' EXCEPT !.last = audio.last] = audio
               /\ feedback' = feedback]_vars

\* Escape was pressed while a segment was playing: its node was stopped and
\* the segment is cleared
C32_Witness ==
    /\ audio.last.op = "keyEscape"
    /\ playbackState = "idle"
    /\ audio.segmentStart = 0 /\ audio.segmentEnd = 0
    /\ \E n \in audio.nodes : n.stopped /\ n.id = audio.nextNode - 1

\* C33: Space pressed while playing leaves the state paused; pressed in any
\* paused state it leaves the state playing, from the paused position;
\* pressed while idle it changes nothing.
C33_SpaceToggles ==
    [][(PbStep("keySpace") /\ ops' = ops + 1) =>
          /\ playbackState = "playing" => playbackState' = "paused"
          /\ playbackState = "paused" =>
                /\ playbackState' = "playing"
                /\ playbackRefs'.segmentStartTimeRef = playbackRefs.pausedAtRef
          /\ playbackState = "idle" =>
                /\ playbackState' = "idle"
                /\ playbackRefs' = playbackRefs
                /\ [audio' EXCEPT !.last = audio.last] = audio]_vars

\* C34: an ended callback or an animation tick that belongs to a source
\* node other than the current one (paused, stopped, or replaced by a newer
\* playSegment) changes neither the playback state nor the current segment.
C34_StaleCallbacksIgnored ==
    [][((PbStep("ended") \/ PbStep("tick")) /\ ~audio'.last.current) =>
          /\ playbackState' = playbackState
          /\ audio'.segmentStart = audio.segmentStart
          /\ audio'.segmentEnd = audio.segmentEnd
          /\ audio'.currentTime = audio.currentTime
          /\ audio'.sourceNodeRef = audio.sourceNodeRef
          /\ audio'.isPlayingRef = audio.isPlayingRef
          /\ playbackRefs' = playbackRefs]_vars

\* the ended event of a replaced node was dispatched while the newer segment
\* was playing, and that segment is still the one playing
C34_Witness ==
    /\ audio.last.op = "ended"
    /\ ~audio.last.current
    /\ audio.last.node # 0
    /\ playbackState = "playing"
    /\ audio.sourceNodeRef > audio.last.node

\* C35: a playing segment that is neither paused nor stopped is eventually
\* over, with the state back at idle; a zero-length segment too.
C35_SegmentCompletes ==
    (playbackState = "playing") ~> (playbackState \in {"idle", "paused"})

\* the zero-length segment [2, 2] was started and the tick ended it
C35_Witness ==
    /\ audio.last.op = "tick"
    /\ playbackState = "idle"
    /\ audio.segmentStart = 2 /\ audio.segmentEnd = 2
    /\ audio.currentTime = 2
    /\ ~audio.isPlayingRef

\* C36: whatever section keys were pressed, the key-pressed indicator is
\* eventually null and stays null once the presses have stopped, whether or
\* not the playback has finished.
C36_FeedbackClears == <>[](feedback.pressedKeyboardIndex = "")

\* the last timeout cleared the indicator while the segment started by the
\* key press was still playing
C36_Witness ==
    /\ audio.last.op = "timer"
    /\ feedback = NoFeedback
    /\ playbackState = "playing"
    /\ keyEvent # ""

\* C39: the state is "playing" exactly when isPlayingRef is set, and while
\* it is "playing" sourceNodeRef holds a node whose ended event is still to
\* come.
C39_StateMatchesFlag ==
    /\ (playbackState = "playing") <=> audio.isPlayingRef
    /\ playbackState = "playing" =>
          /\ audio.sourceNodeRef # 0
          /\ \E n \in audio.nodes : n.id = audio.sourceNodeRef /\ ~n.stopped

\* Space paused a playing segment: flag cleared, node released
C39_Witness ==
    /\ audio.last.op = "keySpace"
    /\ playbackState = "paused"
    /\ ~audio.isPlayingRef
    /\ audio.sourceNodeRef = 0
    /\ playbackRefs.pausedAtRef > 0

----------------------------------------------------------------------------
(* App.handleExportAll, one step per stretch between two awaits *)

\* number of bulk exports requested in one explored run
ExportMaxOps == 4
\* number of sections of the file
ExportMaxSections == 3

ExportFormats == {"wav", "mp3"}

\* Math.round(((i + 1) / sections.length) * 100)
ProgressPercent(i, total) == (200 * (i + 1) + total) \div (2 * total)

\* n consecutive sections of one second each
ExportSections(n) ==
    [i \in 1..n |-> [id |-> i, startTime |-> i - 1, endTime |-> i, enabled |-> TRUE]]

\* the editor is shown for file 1 with up to ExportMaxSections sections
ExportInit ==
    /\ StoreInit
    /\ markersIn = <<>>
    /\ sections \in {ExportSections(n) : n \in 0..ExportMaxSections}
    /\ played = NoCall
    /\ keyEvent = ""
    /\ keyMods = NoMods
    /\ audioDuration = 4
    /\ audioBuffer = 1
    /\ waveformData = TRUE
    /\ isLoading = FALSE
    /\ pending = NoPending
    /\ exportingSectionId = <<>>
    /\ isExporting = FALSE
    /\ exportProgress = NoProgress
    /\ playbackState = "idle"
    /\ playbackRefs = NoRefs
    /\ PlaybackIdle
    /\ zoomStep = <<6, 5>>
    /\ zoomLevel = <<1, 1>>
    /\ panOffset = <<0, 1>>
    /\ lastZoom = NoZoom
    /\ GestureIdle

\* lastOp notes the stretch that ran and the number of files encoded so far
ExportFrame(op, encoded) ==
    /\ lastOp' = Note(op, encoded, TRUE)
    /\ UNCHANGED <<history, selectedMarkerId, nextId, drag, afterReset,
                   pureVars, keyMods, audioDuration, audioBuffer, waveformData,
                   isLoading, exportingSectionId, playVars, zoomVars, gestureVars>>

\* the Export All menu entry is clicked; the overlay covers the editor while
\* isExporting is set. Up to the first await: startExport(sections.length)
ExportAllClick(format) ==
    /\ ~isExporting
    /\ pending = NoPending
    /\ ops' = ops + 1
    /\ IF audioBuffer = 0 \/ Len(sections) = 0
       THEN /\ UNCHANGED <<isExporting, exportProgress, pending>>
            /\ ExportFrame("exportAllIgnored", 0)
       ELSE /\ isExporting' = startExport(Len(sections)).isExporting
            /\ exportProgress' = startExport(Len(sections)).counters
            /\ pending' = [kind |-> "exportAll", format |-> format,
                           at |-> "started", i |-> 0, total |-> Len(sections)]
            /\ ExportFrame("exportAllStart", 0)

\* the loop head: updateProgress(i + 1, ...) and the await that follows, or,
\* past the last section, the call of createZipArchive
ExportLoopHead(i) ==
    IF i < pending.total
    THEN /\ exportProgress' = updateProgress(exportProgress, i + 1,
                                             ProgressPercent(i, pending.total))
         /\ pending' = [pending EXCEPT !.at = "encode", !.i = i]
         /\ UNCHANGED isExporting
         /\ ExportFrame("exportProgress", i)
    ELSE /\ pending' = [pending EXCEPT !.at = "zip", !.i = i]
         /\ UNCHANGED <<isExporting, exportProgress>>
         /\ ExportFrame("exportZip", i)

\* catch (showToast) and finally, or the end of try and finally:
\* completeExport()
ExportSettle(op, encoded) ==
    /\ isExporting' = completeExport.isExporting
    /\ exportProgress' = completeExport.counters
    /\ pending' = NoPending
    /\ ExportFrame(op, encoded)

\* after the first await: the try block is entered
ExportEnterLoop ==
    /\ pending.kind = "exportAll"
    /\ pending.at = "started"
    /\ ExportLoopHead(0)
    /\ UNCHANGED ops

\* after the await of the loop body: encodeWav / encodeMp3 returns a blob
\* (ok) or throws
ExportEncode(ok) ==
    /\ pending.kind = "exportAll"
    /\ pending.at = "encode"
    /\ IF ok THEN ExportLoopHead(pending.i + 1)
       ELSE ExportSettle("exportError", pending.i)
    /\ UNCHANGED ops

\* createZipArchive resolves and saveAs returns (ok), or one of them fails
ExportZip(ok) ==
    /\ pending.kind = "exportAll"
    /\ pending.at = "zip"
    /\ ExportSettle(IF ok THEN "exported" ELSE "exportError", pending.i)
    /\ UNCHANGED ops

\* the handler goes on after an await
ExportContinue ==
    \/ ExportEnterLoop
    \/ \E ok \in BOOLEAN : ExportEncode(ok)
    \/ \E ok \in BOOLEAN : ExportZip(ok)

ExportNext ==
    \/ More(ExportMaxOps) /\ \E format \in ExportFormats : ExportAllClick(format)
    \/ ExportEnterLoop
    \/ \E ok \in BOOLEAN : ExportEncode(ok)
    \/ \E ok \in BOOLEAN : ExportZip(ok)

\* timeouts fire and promises settle: a handler that awaits goes on
SpecExport ==
    /\ ExportInit
    /\ [][ExportNext]_vars
    /\ WF_vars(ExportContinue)

\* C37: every bulk export that has set isExporting ends with isExporting
\* cleared, whether all sections were encoded and zipped or an encode or
\* zip step failed part-way.
C37_ExportCompletes == isExporting ~> ~isExporting

\* the second of three sections failed to encode and the overlay is gone
C37_Witness ==
    /\ lastOp.op = "exportError"
    /\ lastOp.id = 1
    /\ Len(sections) = 3
    /\ ~isExporting
    /\ exportProgress = completeExport.counters
    /\ pending = NoPending

----------------------------------------------------------------------------
(* Invariants of the selection and of the derived sections *)

\* C38: selectedMarkerId is null or the id of a marker of the current list,
\* after undo, redo, clearMarkers and reset too.
C38_SelectionValid ==
    selectedMarkerId = NoId \/ HasId(history.present, selectedMarkerId)

\* smallest and largest marker time of a non-empty list
MinTime(markers) ==
    CHOOSE t \in {markers[i].time : i \in DOMAIN markers} :
        \A i \in DOMAIN markers : t <= markers[i].time

MaxTime(markers) ==
    CHOOSE t \in {markers[i].time : i \in DOMAIN markers} :
        \A i \in DOMAIN markers : t >= markers[i].time

\* C40: the sections derived from any marker list tile the span from the
\* first to the last marker: every section has startTime <= endTime, each
\* section ends where the next one starts, the first starts at the smallest
\* marker time and the last ends at the largest.
C40_SectionsTile ==
    lastOp.op = "getSections" =>
        /\ \A i \in DOMAIN sections : sections[i].startTime <= sections[i].endTime
        /\ \A i \in 1..(Len(sections) - 1) :
              sections[i].endTime = sections[i + 1].startTime
        /\ sections # <<>> =>
              /\ sections[1].startTime = MinTime(markersIn)
              /\ sections[Len(sections)].endTime = MaxTime(markersIn)

\* three markers handed over latest first, at three different times
C40_Witness ==
    /\ lastOp.op = "getSections"
    /\ Len(markersIn) = 3
    /\ markersIn[1].time = 2 /\ markersIn[2].time = 1 /\ markersIn[3].time = 0
    /\ Len(sections) = 2
    /\ sections[1].endTime = 1 /\ sections[2].startTime = 1

====
